---- MODULE Spec2Model ----
(***************************************************************************)
(* State-machine model of the retrieval core of NoteBook-LLM:              *)
(*   - FAISSVectorStore (backend/rag/vector_store.py)                      *)
(*   - RAGService ingestion / removal (backend/rag/rag_service.py)         *)
(*   - DocumentViewSet.process_document (backend/documents/views.py)       *)
(*   - SessionMemory and ChatViewSet.send (backend/rag/session_memory.py,  *)
(*     backend/chat/views.py)                                              *)
(***************************************************************************)
EXTENDS Integers, Sequences, FiniteSets, TLC

(***************************************************************************)
(* Bounds of the model.                                                    *)
(***************************************************************************)
MaxDoc == 2
MaxChunks == 2
MaxDim == 2
MaxVecs == 3
MaxK == 2
MaxNextId == 2
MaxConv == 2
MaxWorkers == 2
MaxMessages == 4

Docs == 1..MaxDoc
Dims == 1..MaxDim
Convs == 1..MaxConv
Workers == 1..MaxWorkers

\* SessionMemory.SESSION_TIMEOUT
SESSION_TIMEOUT == 1800

\* the readings of the clock the model tells apart
Times == {0, SESSION_TIMEOUT + 1}

VARIABLES
    store,      \* the FAISSVectorStore singleton of the running process
    disk,       \* persist_dir: the files faiss.index and metadata.pkl
    embedDim,   \* dimension of the embedding model loaded by this process
    documents,  \* Document rows (and the number of their DocumentChunk rows)
    last,       \* the last completed operation, its arguments and outcome
    results,    \* the list returned by the last search
    writer,     \* a worker thread inside add, delete_by_doc_id or save
    reader,     \* a worker thread inside search or _load_if_exists
    snapshot,   \* store and directory when the writer thread entered its call
    sessions,   \* SessionMemory._sessions of the running process
    clock,      \* the reading of time.time()
    turns,      \* the send request each worker thread is handling
    messages,   \* the Message table: the number of rows created (the last id)
    call        \* the last direct call of a component method and what it returned

threads == <<writer, reader, snapshot>>
chat == <<sessions, clock, turns, messages>>
vars == <<store, disk, embedDim, documents, last, results, writer, reader, snapshot,
          sessions, clock, turns, messages, call>>

Max(a, b) == IF a >= b THEN a ELSE b
Min(a, b) == IF a <= b THEN a ELSE b

(***************************************************************************)
(* Inputs: chunk texts, embeddings and chunk metadata of a document.       *)
(***************************************************************************)
\* the text of chunk idx of document doc (an opaque string)
ChunkText(doc, idx) == doc * 10 + idx

\* the embedding model: a deterministic function of the text and the model
EmbedText(doc, idx, dim) == [i \in 1..dim |-> ((doc + 2 * idx + i) % 3) - 1]

\* chunk_with_metadata: chunk_id = base_chunk_id + chunk_index
ChunkWithMetadata(doc, n, base_chunk_id) ==
    [i \in 1..n |-> [doc_id |-> doc, chunk_id |-> base_chunk_id + (i - 1),
                     chunk_index |-> i - 1]]

(***************************************************************************)
(* The faiss IndexFlatIP object.                                           *)
(***************************************************************************)
NoneIndex == [present |-> FALSE, d |-> 0, vecs |-> <<>>]
IndexFlatIP(d) == [present |-> TRUE, d |-> d, vecs |-> <<>>]
Ntotal(ix) == Len(ix.vecs)

\* `self._index is None or self._index.ntotal == 0`
IndexIsEmpty(s) == (~s.index.present) \/ Ntotal(s.index) = 0

\* FAISSVectorStore.__init__ before _load_if_exists
NewStore(dimension) ==
    [index |-> NoneIndex, metadata |-> <<>>, texts |-> <<>>, id_map |-> <<>>,
     next_id |-> 0, dimension |-> dimension]

GetOrCreateIndex(s) ==
    IF s.index.present THEN s ELSE [s EXCEPT !.index = IndexFlatIP(s.dimension)]

(***************************************************************************)
(* FAISSVectorStore.add                                                    *)
(***************************************************************************)
\* one pass of the id loop: `meta.chunk_id if meta.chunk_id else self._next_id`
GenerateId(s, txt, meta) ==
    LET chunk_id == IF meta.chunk_id # 0 THEN meta.chunk_id ELSE s.next_id
    IN  [store |-> [s EXCEPT !.next_id = Max(s.next_id, chunk_id + 1),
                             !.id_map = Append(@, chunk_id),
                             !.metadata = (chunk_id :> meta) @@ @,
                             !.texts = (chunk_id :> txt) @@ @],
         id |-> chunk_id]

RECURSIVE GenerateIds(_, _, _, _)
GenerateIds(s, txts, metas, i) ==
    IF i > Len(metas) THEN [store |-> s, ids |-> <<>>]
    ELSE LET one == GenerateId(s, txts[i], metas[i])
             rest == GenerateIds(one.store, txts, metas, i + 1)
         IN  [store |-> rest.store, ids |-> <<one.id>> \o rest.ids]

\* index.add(embeddings): faiss asserts that the row width equals index.d
IndexAdd(ix, embeddings) == [ix EXCEPT !.vecs = @ \o embeddings]

\* Result: the store afterwards, whether the call raised, the returned ids
Add(s, embeddings, txts, metas) ==
    IF Len(embeddings) = 0
    THEN [store |-> s, raised |-> FALSE, ids |-> <<>>]
    ELSE IF Len(embeddings) # Len(txts) \/ Len(embeddings) # Len(metas)
    THEN [store |-> s, raised |-> TRUE, ids |-> <<>>]
    ELSE LET dimE == Len(embeddings[1]) IN
         IF dimE # s.dimension /\ ~IndexIsEmpty(s)
         THEN [store |-> s, raised |-> TRUE, ids |-> <<>>]
         ELSE LET s1 == [s EXCEPT !.dimension = dimE]
                  s2 == GetOrCreateIndex(s1)
                  gen == GenerateIds(s2, txts, metas, 1)
                  s3 == gen.store
              IN  IF dimE # s3.index.d
                  THEN [store |-> s3, raised |-> TRUE, ids |-> <<>>]
                  ELSE [store |-> [s3 EXCEPT !.index = IndexAdd(@, embeddings)],
                        raised |-> FALSE, ids |-> gen.ids]

(***************************************************************************)
(* FAISSVectorStore.delete_by_doc_id / _rebuild_index                      *)
(***************************************************************************)
RECURSIVE KeptSlots(_, _, _)
KeptSlots(id_map, keep_ids, i) ==
    IF i > Len(id_map) THEN <<>>
    ELSE (IF id_map[i] \in keep_ids THEN <<i>> ELSE <<>>)
         \o KeptSlots(id_map, keep_ids, i + 1)

\* dict.get(key, default)
Get(dict, key, default) == IF key \in DOMAIN dict THEN dict[key] ELSE default

NoMeta == [doc_id |-> 0, chunk_id |-> 0, chunk_index |-> 0]

\* _rebuild_index, the collecting loop: old_index.reconstruct(i) and the
\* entries of every kept slot
RebuildCollect(s, keep_ids) ==
    LET slots == KeptSlots(s.id_map, keep_ids, 1)
        kept == {s.id_map[slots[j]] : j \in 1..Len(slots)}
    IN  [new_embeddings |-> [j \in 1..Len(slots) |-> s.index.vecs[slots[j]]],
         new_texts |-> [c \in kept |-> Get(s.texts, c, 0)],
         new_metadata |-> [c \in kept |-> Get(s.metadata, c, NoMeta)],
         new_id_map |-> [j \in 1..Len(slots) |-> s.id_map[slots[j]]]]

RebuildIndex(s, keep_ids) ==
    LET new == RebuildCollect(s, keep_ids)
    IN  [s EXCEPT !.index = IndexAdd(IndexFlatIP(s.dimension), new.new_embeddings),
                  !.texts = new.new_texts,
                  !.metadata = new.new_metadata,
                  !.id_map = new.new_id_map]

\* `keep_ids = [cid for cid, meta in self._metadata.items() if meta.doc_id != doc_id]`
KeepIds(s, doc_id) == {cid \in DOMAIN s.metadata : s.metadata[cid].doc_id # doc_id}

DeleteByDocId(s, doc_id) ==
    IF IndexIsEmpty(s) THEN s
    ELSE LET keep_ids == KeepIds(s, doc_id)
         IN  IF Cardinality(keep_ids) = Cardinality(DOMAIN s.metadata) THEN s
             ELSE RebuildIndex(s, keep_ids)

GetDocChunkCount(s, doc_id) ==
    Cardinality({cid \in DOMAIN s.metadata : s.metadata[cid].doc_id = doc_id})

GetTotalCount(s) == IF ~s.index.present THEN 0 ELSE Ntotal(s.index)

(***************************************************************************)
(* Persistence: FAISSVectorStore.save, _load_if_exists, clear              *)
(***************************************************************************)
\* faiss.write_index: header (d, ntotal) followed by the flat float array
WriteIndex(ix) ==
    [exists |-> TRUE, partial |-> FALSE, d |-> ix.d, ntotal |-> Ntotal(ix),
     xb |-> [p \in 1..(Ntotal(ix) * ix.d) |->
                ix.vecs[((p - 1) \div ix.d) + 1][((p - 1) % ix.d) + 1]]]

\* faiss.read_index: cut the flat array back into ntotal rows of width d
ReadIndex(f) ==
    [present |-> TRUE, d |-> f.d,
     vecs |-> [r \in 1..f.ntotal |-> [c \in 1..f.d |-> f.xb[(r - 1) * f.d + c]]]]

\* pickle.dump of the auxiliary maps
PickleDump(s) ==
    [exists |-> TRUE, partial |-> FALSE,
     data |-> [metadata |-> s.metadata, texts |-> s.texts, id_map |-> s.id_map,
               next_id |-> s.next_id, dimension |-> s.dimension]]

NoIndexFile == [exists |-> FALSE, partial |-> FALSE, d |-> 0, ntotal |-> 0, xb |-> <<>>]
NoMetaFile ==
    [exists |-> FALSE, partial |-> FALSE,
     data |-> [metadata |-> <<>>, texts |-> <<>>, id_map |-> <<>>,
               next_id |-> 0, dimension |-> 0]]
EmptyDisk == [index_file |-> NoIndexFile, meta_file |-> NoMetaFile]

\* save(): returns the persist directory afterwards
Save(s, dk) ==
    IF IndexIsEmpty(s) THEN dk
    ELSE [index_file |-> WriteIndex(s.index), meta_file |-> PickleDump(s)]

\* _load_if_exists(): a truncated file makes read_index / pickle.load raise
LoadIfExists(s, dk) ==
    IF dk.index_file.exists /\ dk.meta_file.exists
    THEN IF dk.index_file.partial \/ dk.meta_file.partial
         THEN [s EXCEPT !.index = NoneIndex]
         ELSE [index |-> ReadIndex(dk.index_file),
               metadata |-> dk.meta_file.data.metadata,
               texts |-> dk.meta_file.data.texts,
               id_map |-> dk.meta_file.data.id_map,
               next_id |-> dk.meta_file.data.next_id,
               dimension |-> dk.meta_file.data.dimension]
    ELSE s

\* FAISSVectorStore(persist_dir, dimension) on an existing directory
FreshStore(dimension, dk) == LoadIfExists(NewStore(dimension), dk)

\* clear(): the in-memory part
ClearStore(s) ==
    [s EXCEPT !.index = NoneIndex, !.metadata = <<>>, !.texts = <<>>,
              !.id_map = <<>>, !.next_id = 0]

(***************************************************************************)
(* FAISSVectorStore.search                                                 *)
(***************************************************************************)
RECURSIVE Dot(_, _, _)
Dot(q, v, i) == IF i > Len(q) THEN 0 ELSE q[i] * v[i] + Dot(q, v, i + 1)

\* inner product of the query with the vector in a slot
Score(ix, q, slot) == Dot(q, ix.vecs[slot], 1)

\* index.search(q, search_k): the (score, idx) pairs of the search_k best
\* scores, best first; faiss does not fix the order of equal scores, so every
\* order of equally scored slots is a possible answer
RECURSIVE IndexSearchFrom(_, _, _, _)
IndexSearchFrom(ix, q, search_k, chosen) ==
    IF Len(chosen) >= search_k THEN {chosen}
    ELSE LET rest == {slot \in 1..Ntotal(ix) :
                         \A a \in 1..Len(chosen) : chosen[a].idx # slot}
             best == {slot \in rest :
                         \A other \in rest : Score(ix, q, slot) >= Score(ix, q, other)}
         IN  UNION {IndexSearchFrom(ix, q, search_k,
                        Append(chosen, [score |-> Score(ix, q, slot), idx |-> slot])) :
                       slot \in best}

IndexSearch(ix, q, search_k) == IndexSearchFrom(ix, q, search_k, <<>>)

\* `search_k = k * 3 if doc_ids else k`, then min with ntotal
SearchK(ix, k, doc_ids) ==
    Min(IF doc_ids # {} THEN k * 3 ELSE k, Ntotal(ix))

\* one pass of the loop body for the pair hit: the SearchResult appended, if any
LoopBody(s, hit, doc_ids, min_score) ==
    IF hit.idx > Len(s.id_map) THEN <<>>
    ELSE LET chunk_id == s.id_map[hit.idx] IN
         IF chunk_id \notin DOMAIN s.metadata THEN <<>>
         ELSE IF hit.score < min_score THEN <<>>
         ELSE IF doc_ids # {} /\ s.metadata[chunk_id].doc_id \notin doc_ids THEN <<>>
         ELSE <<[chunk_id |-> chunk_id,
                 doc_id |-> s.metadata[chunk_id].doc_id,
                 score |-> hit.score,
                 text |-> Get(s.texts, chunk_id, 0),
                 metadata |-> s.metadata[chunk_id]]>>

\* the loop over the (score, idx) pairs with its `break` at k results
FilterLoopNoBreak(s, hits, k, doc_ids, min_score, i, acc) ==
    LET RECURSIVE Loop(_, _)
        Loop(j, a) == IF j > Len(hits) THEN a
                      ELSE Loop(j + 1, a \o LoopBody(s, hits[j], doc_ids, min_score))
    IN  Loop(i, acc)

RECURSIVE FilterLoop(_, _, _, _, _, _, _)
FilterLoop(s, hits, k, doc_ids, min_score, i, acc) ==
    IF i > Len(hits) THEN acc
    ELSE LET acc1 == acc \o LoopBody(s, hits[i], doc_ids, min_score)
         IN  IF Len(acc1) > Len(acc) /\ Len(acc1) >= k THEN acc1
             ELSE FilterLoop(s, hits, k, doc_ids, min_score, i + 1, acc1)

\* the set of lists search may return (one per order faiss may report)
Search(s, q, k, doc_ids, min_score) ==
    IF IndexIsEmpty(s) THEN {<<>>}
    ELSE {FilterLoop(s, hits, k, doc_ids, min_score, 1, <<>>) :
             hits \in IndexSearch(s.index, q, SearchK(s.index, k, doc_ids))}

(***************************************************************************)
(* RAGService.ingest_document, called by DocumentViewSet.process_document  *)
(***************************************************************************)
\* the step of the ingestion at which the environment makes a call raise
FailPoints == {"none", "embed", "rows", "docsave"}

NoDocument ==
    [exists |-> FALSE, processed |-> FALSE, embedded |-> FALSE,
     processing_error |-> "", rows |-> 0]

\* n: number of chunks the chunker returns; dim: width of the embeddings;
\* r: DocumentChunk rows written before a failing create.
\* Result: store and directory afterwards, whether an exception left the
\* method, the ids add returned, the DocumentChunk rows of the document and
\* the in-memory document.embedded
IngestDocument(s, dk, rows0, doc, n, dim, failAt, r) ==
    LET chunks == ChunkWithMetadata(doc, n, 0)
        chunk_texts == [i \in 1..n |-> ChunkText(doc, i - 1)]
        embeddings == [i \in 1..n |-> EmbedText(doc, i - 1, dim)]
        res == Add(s, embeddings, chunk_texts, chunks)
    IN  IF failAt = "embed"
        THEN [store |-> s, disk |-> dk, raised |-> TRUE, ids |-> <<>>,
              rows |-> rows0, embedded |-> FALSE]
        ELSE IF res.raised
        THEN [store |-> res.store, disk |-> dk, raised |-> TRUE, ids |-> <<>>,
              rows |-> rows0, embedded |-> FALSE]
        ELSE IF failAt = "rows"
        THEN [store |-> res.store, disk |-> dk, raised |-> TRUE, ids |-> res.ids,
              rows |-> r, embedded |-> FALSE]
        ELSE IF failAt = "docsave"
        THEN [store |-> res.store, disk |-> dk, raised |-> TRUE, ids |-> res.ids,
              rows |-> n, embedded |-> TRUE]
        ELSE [store |-> res.store, disk |-> Save(res.store, dk), raised |-> FALSE,
              ids |-> res.ids, rows |-> n, embedded |-> TRUE]

\* process_document for a document with a processor and non-empty text;
\* m: number of chunks DocumentProcessor.chunk_text returns in the fallback
ProcessDocument(s, dk, rec, doc, n, dim, failAt, r, m) ==
    LET rec1 == [rec EXCEPT !.exists = TRUE, !.processed = TRUE]
        ing == IngestDocument(s, dk, rec1.rows, doc, n, dim, failAt, r)
    IN  [store |-> ing.store, disk |-> ing.disk, raised |-> ing.raised,
         ids |-> ing.ids,
         doc |-> IF ~ing.raised
                 THEN [rec1 EXCEPT !.embedded = TRUE, !.rows = ing.rows]
                 \* _fallback_chunking: (document, chunk_index) is unique, so
                 \* its first create raises when row 0 exists already and the
                 \* outer handler records the error
                 ELSE IF ing.rows >= 1
                 THEN [rec1 EXCEPT !.embedded = ing.embedded, !.rows = ing.rows,
                                   !.processing_error = "IntegrityError"]
                 ELSE [rec1 EXCEPT !.embedded = FALSE, !.rows = m]]

\* remove_document
RemoveDocument(s, dk, doc) ==
    LET s1 == DeleteByDocId(s, doc)
    IN  [store |-> s1, disk |-> Save(s1, dk)]

(***************************************************************************)
(* State machine of one server process at a time (requests run one after   *)
(* the other; the process may restart).                                    *)
(***************************************************************************)
\* query embeddings of width d, min_score values and document filters
Queries(d) == {[i \in 1..d |-> 1], [i \in 1..d |-> IF i = 1 THEN -1 ELSE 1]}
MinScores == {0, 1}
DocFilters == {{}} \cup {{d} : d \in Docs}

NoOp ==
    [op |-> "init", doc |-> 0, raised |-> FALSE, ids |-> <<>>, failAt |-> "none",
     q |-> <<>>, k |-> 0, doc_ids |-> {}, min_score |-> 0]

\* a worker thread that is in none of the calls
Idle == [pc |-> "idle"]

\* no SessionContext under a conversation id
NoSession ==
    [present |-> FALSE, last_query |-> <<>>, last_chunks |-> <<>>,
     query_history |-> <<>>, topic_keywords |-> <<>>, last_updated |-> 0]

\* a worker thread that handles no send request
IdleTurn ==
    [pc |-> "idle", cid |-> 0, message |-> <<>>, document_ids |-> {}, arrival |-> 0,
     is_follow_up |-> FALSE, retrieved_chunks |-> <<>>, context_chunks |-> <<>>]

\* a process that has served no chat request
ChatInit ==
    /\ sessions = [c \in Convs |-> NoSession]
    /\ clock = 0
    /\ turns = [w \in Workers |-> IdleTurn]
    /\ messages = 0

\* no component method has been called directly
NoCall == [fn |-> "none"]

Init ==
    /\ embedDim \in Dims
    /\ store = NewStore(embedDim)
    /\ disk = EmptyDisk
    /\ documents = [d \in Docs |-> NoDocument]
    /\ last = NoOp
    /\ results = <<>>
    /\ writer = Idle
    /\ reader = Idle
    /\ snapshot = [store |-> store, disk |-> disk]
    /\ ChatInit
    /\ call = NoCall

\* DocumentViewSet.perform_create -> process_document
Create(doc, n, failAt, r, m) ==
    /\ ~documents[doc].exists
    /\ r < n
    /\ (failAt # "rows" => r = 0)
    /\ (failAt = "none" => m = 1)
    /\ Len(store.id_map) + n <= MaxVecs
    /\ store.next_id < MaxNextId
    /\ LET out == ProcessDocument(store, disk, documents[doc], doc, n, embedDim,
                                  failAt, r, m)
       IN  /\ store' = out.store
           /\ disk' = out.disk
           /\ documents' = [documents EXCEPT ![doc] = out.doc]
           /\ last' = [NoOp EXCEPT !.op = "create", !.doc = doc,
                                   !.raised = out.raised, !.ids = out.ids,
                                   !.failAt = failAt]
    /\ UNCHANGED <<embedDim, results, threads, chat, call>>

\* DocumentViewSet.perform_destroy
Destroy(doc) ==
    /\ documents[doc].exists
    /\ LET out == RemoveDocument(store, disk, doc)
       IN  /\ store' = out.store
           /\ disk' = out.disk
    /\ documents' = [documents EXCEPT ![doc] = NoDocument]
    /\ last' = [NoOp EXCEPT !.op = "destroy", !.doc = doc]
    /\ UNCHANGED <<embedDim, results, threads, chat, call>>

\* FAISSVectorStore.clear
Clear ==
    /\ store' = ClearStore(store)
    /\ disk' = EmptyDisk
    /\ last' = [NoOp EXCEPT !.op = "clear"]
    /\ UNCHANGED <<embedDim, documents, results, threads, chat, call>>

\* the server process restarts, possibly configured with another embedding
\* model: get_vector_store(dimension) constructs the store from persist_dir
Restart(dim) ==
    /\ embedDim' = dim
    /\ store' = FreshStore(dim, disk)
    /\ last' = [NoOp EXCEPT !.op = "restart"]
    /\ results' = <<>>
    /\ UNCHANGED <<disk, documents, threads, chat, call>>

\* FAISSVectorStore.search with a query embedded by the current model;
\* faiss asserts that the query width equals index.d.  A search changes
\* nothing but `results` and `last`, so a search that follows a search reaches
\* only states that a single search reaches: search steps are generated from
\* the states the other requests leave.
SearchStore(q, k, doc_ids, min_score) ==
    /\ last.op # "search"
    /\ IF ~IndexIsEmpty(store) /\ Len(q) # store.index.d
       THEN /\ results' = <<>>
            /\ last' = [NoOp EXCEPT !.op = "search", !.raised = TRUE, !.q = q,
                                    !.k = k, !.doc_ids = doc_ids,
                                    !.min_score = min_score]
       ELSE /\ results' \in Search(store, q, k, doc_ids, min_score)
            /\ last' = [NoOp EXCEPT !.op = "search", !.q = q, !.k = k,
                                    !.doc_ids = doc_ids, !.min_score = min_score]
    /\ UNCHANGED <<store, disk, embedDim, documents, threads, chat, call>>

\* the mutating requests and restarts: the state machine of the store
Next ==
    \/ \E doc \in Docs, n \in 1..MaxChunks, failAt \in FailPoints,
          r \in 0..(MaxChunks - 1), m \in 1..MaxChunks :
          Create(doc, n, failAt, r, m)
    \/ \E doc \in Docs : Destroy(doc)
    \/ Clear
    \/ \E dim \in Dims : Restart(dim)

Spec == Init /\ [][Next]_vars

\* one server process: ingestion without injected failures, removal, search
NextSearch ==
    \/ \E doc \in Docs, n \in 1..MaxChunks : Create(doc, n, "none", 0, 1)
    \/ \E doc \in Docs : Destroy(doc)
    \/ \E q \in Queries(embedDim), k \in 1..MaxK, doc_ids \in DocFilters,
          min_score \in MinScores : SearchStore(q, k, doc_ids, min_score)

SpecSearch == Init /\ [][NextSearch]_vars

(***************************************************************************)
(* Properties of the vector store and of ingestion.                        *)
(***************************************************************************)
Range(seq) == {seq[i] : i \in 1..Len(seq)}

\* every list search can return in store s
AllSearches(s) ==
    UNION {Search(s, q, k, doc_ids, min_score) :
              q \in Queries(s.index.d), k \in 1..MaxK, doc_ids \in DocFilters,
              min_score \in MinScores}

\* C1: after delete_by_doc_id(d) (run by perform_destroy), get_doc_chunk_count(d)
\* is 0 and no search returns a result whose doc_id is d.
C1_DeletedDocumentIsGone ==
    last.op = "destroy" =>
        /\ GetDocChunkCount(store, last.doc) = 0
        /\ \A res \in AllSearches(store) :
              \A i \in 1..Len(res) : res[i].doc_id # last.doc

\* what a reader of the store can tell apart: count, vectors per slot, maps
SameContents(a, b) ==
    /\ GetTotalCount(a) = GetTotalCount(b)
    /\ a.index.vecs = b.index.vecs
    /\ a.texts = b.texts
    /\ a.metadata = b.metadata
    /\ a.id_map = b.id_map

\* C2: after save() (the last call of a successful ingestion and of
\* remove_document), a fresh FAISSVectorStore on the same directory has the
\* same total count, vectors per slot, texts, metadata and slot map.
C2_SaveThenLoadRoundTrips ==
    (last.op \in {"create", "destroy"} /\ ~last.raised) =>
        \A dim \in Dims : SameContents(FreshStore(dim, disk), store)

\* C3: the ids add returns in an ingestion are pairwise different and differ
\* from the id of every chunk already stored, and the add overwrites the text
\* and metadata of no stored chunk.
C3_ChunkIdsUnique ==
    [][(last'.op = "create" /\ last'.ids # <<>>) =>
         /\ \A i, j \in 1..Len(last'.ids) : i # j => last'.ids[i] # last'.ids[j]
         /\ \A i \in 1..Len(last'.ids) : last'.ids[i] \notin Range(store.id_map)
         /\ \A c \in DOMAIN store.metadata :
               /\ store'.metadata[c] = store.metadata[c]
               /\ store'.texts[c] = store.texts[c]]_vars

RECURSIVE SumDocCounts(_, _)
SumDocCounts(s, d) ==
    IF d = 0 THEN 0 ELSE GetDocChunkCount(s, d) + SumDocCounts(s, d - 1)

\* C4: in every reachable state the number of vectors in the index equals
\* the length of the slot map, the number of metadata entries and the number
\* of text entries, and get_total_count() is the sum of the per-document
\* chunk counts.
C4_IndexEntriesOneToOne ==
    /\ Ntotal(store.index) = Len(store.id_map)
    /\ Ntotal(store.index) = Cardinality(DOMAIN store.metadata)
    /\ Ntotal(store.index) = Cardinality(DOMAIN store.texts)
    /\ GetTotalCount(store) = SumDocCounts(store, MaxDoc)

\* C5: once an index of dimension d exists (no clear() since), an add with
\* embeddings of another dimension raises and leaves the store unchanged.
C5_DimensionMismatchLeavesStoreUnchanged ==
    [][(/\ last'.op = "create"
        /\ last'.failAt # "embed"
        /\ store.index.present
        /\ embedDim # store.index.d) =>
         (last'.raised /\ store' = store)]_vars

\* the chunks and vectors the store holds for a document
DocChunks(s, doc) ==
    [ids |-> {c \in DOMAIN s.metadata : s.metadata[c].doc_id = doc},
     texts |-> {<<c, s.texts[c]>> : c \in {x \in DOMAIN s.texts :
                    x \in DOMAIN s.metadata /\ s.metadata[x].doc_id = doc}},
     slots |-> {<<i, s.id_map[i]>> : i \in {j \in 1..Len(s.id_map) :
                    Get(s.metadata, s.id_map[j], NoMeta).doc_id = doc}},
     vecs |-> {<<i, s.index.vecs[i]>> : i \in {j \in 1..Ntotal(s.index) :
                    j <= Len(s.id_map)
                    /\ Get(s.metadata, s.id_map[j], NoMeta).doc_id = doc}}]

\* C6: when a step of ingest_document after chunking fails, the store holds
\* for that document exactly what it held before the ingestion, and the
\* document has embedded = false and a non-empty processing_error.
C6_IngestionIsTransactional ==
    [][(last'.op = "create" /\ last'.raised) =>
         /\ DocChunks(store', last'.doc) = DocChunks(store, last'.doc)
         /\ ~documents'[last'.doc].embedded
         /\ documents'[last'.doc].processing_error # ""]_vars

\* C10: a search returns at most k results with non-increasing scores, and
\* exactly min(k, count()) results when there is no document filter and every
\* stored vector scores at least min_score.
C10_SearchBounded ==
    (last.op = "search" /\ ~last.raised) =>
        /\ Len(results) <= last.k
        /\ \A i, j \in 1..Len(results) :
              i < j => results[i].score >= results[j].score
        /\ (/\ last.doc_ids = {}
            /\ \A slot \in 1..Ntotal(store.index) :
                  Score(store.index, last.q, slot) >= last.min_score)
           => Len(results) = Min(last.k, GetTotalCount(store))

\* a filtered search over more than k candidates that was cut at k results
C10_Witness ==
    /\ last.op = "search"
    /\ ~last.raised
    /\ last.doc_ids # {}
    /\ Ntotal(store.index) > last.k
    /\ Len(results) = last.k
    /\ \E i, j \in 1..Len(results) : results[i].score > results[j].score

(***************************************************************************)
(* save() in one thread while another constructs a FAISSVectorStore on the *)
(* same directory.  Each step is one file operation of the two methods.    *)
(***************************************************************************)
\* the store after add() of n chunks of document doc (no exception)
StoreWith(s, doc, n, dim) ==
    Add(s, [i \in 1..n |-> EmbedText(doc, i - 1, dim)],
        [i \in 1..n |-> ChunkText(doc, i - 1)], ChunkWithMetadata(doc, n, 0)).store

\* The directory holds what an earlier save() wrote (nothing, or document 1);
\* the store has since received document 2 and its save() is about to run.
InitSaveRace ==
    /\ embedDim \in Dims
    /\ \E n1 \in 0..MaxChunks, n2 \in 0..MaxChunks :
          /\ n1 + n2 <= MaxVecs
          /\ LET s1 == StoreWith(NewStore(embedDim), 1, n1, embedDim)
             IN  /\ disk = Save(s1, EmptyDisk)
                 /\ store = StoreWith(s1, 2, n2, embedDim)
    /\ documents = [d \in Docs |-> NoDocument]
    /\ last = NoOp
    /\ results = <<>>
    /\ writer = [pc |-> "save"]
    /\ reader = [pc |-> "load", store |-> NewStore(embedDim)]
    /\ snapshot = [store |-> store, disk |-> disk]
    /\ ChatInit
    /\ call = NoCall

UnchangedBySave ==
    UNCHANGED <<store, embedDim, documents, last, results, snapshot, chat, call>>

\* save(): `if self._index is None or self._index.ntotal == 0: return`
SaveCheck ==
    /\ writer.pc = "save"
    /\ writer' = [pc |-> IF IndexIsEmpty(store) THEN "saved" ELSE "write_index"]
    /\ UNCHANGED <<disk, reader>>
    /\ UnchangedBySave

\* faiss.write_index opens faiss.index for writing: the file is truncated
WriteIndexOpen ==
    /\ writer.pc = "write_index"
    /\ disk' = [disk EXCEPT !.index_file = [NoIndexFile EXCEPT !.exists = TRUE,
                                                               !.partial = TRUE]]
    /\ writer' = [pc |-> "write_index_end"]
    /\ UNCHANGED reader
    /\ UnchangedBySave

\* faiss.write_index has written the whole index
WriteIndexEnd ==
    /\ writer.pc = "write_index_end"
    /\ disk' = [disk EXCEPT !.index_file = WriteIndex(store.index)]
    /\ writer' = [pc |-> "dump"]
    /\ UNCHANGED reader
    /\ UnchangedBySave

\* open(metadata_path, 'wb') truncates metadata.pkl
DumpOpen ==
    /\ writer.pc = "dump"
    /\ disk' = [disk EXCEPT !.meta_file = [NoMetaFile EXCEPT !.exists = TRUE,
                                                             !.partial = TRUE]]
    /\ writer' = [pc |-> "dump_end"]
    /\ UNCHANGED reader
    /\ UnchangedBySave

\* pickle.dump has written the maps and the file is closed
DumpEnd ==
    /\ writer.pc = "dump_end"
    /\ disk' = [disk EXCEPT !.meta_file = PickleDump(store)]
    /\ writer' = [pc |-> "saved"]
    /\ UNCHANGED reader
    /\ UnchangedBySave

\* _load_if_exists: `if index_path.exists() and metadata_path.exists()`
LoadExists ==
    /\ reader.pc = "load"
    /\ reader' = [reader EXCEPT !.pc = IF disk.index_file.exists /\ disk.meta_file.exists
                                       THEN "read_index" ELSE "loaded"]
    /\ UNCHANGED <<disk, writer>>
    /\ UnchangedBySave

\* faiss.read_index; a truncated file raises and the handler drops the index
LoadReadIndex ==
    /\ reader.pc = "read_index"
    /\ reader' = IF disk.index_file.partial
                 THEN [reader EXCEPT !.pc = "loaded", !.store.index = NoneIndex]
                 ELSE [reader EXCEPT !.pc = "pickle_load",
                                     !.store.index = ReadIndex(disk.index_file)]
    /\ UNCHANGED <<disk, writer>>
    /\ UnchangedBySave

\* pickle.load and the five assignments; a truncated file raises
LoadPickle ==
    /\ reader.pc = "pickle_load"
    /\ reader' = IF disk.meta_file.partial
                 THEN [reader EXCEPT !.pc = "loaded", !.store.index = NoneIndex]
                 ELSE [reader EXCEPT !.pc = "loaded",
                          !.store.metadata = disk.meta_file.data.metadata,
                          !.store.texts = disk.meta_file.data.texts,
                          !.store.id_map = disk.meta_file.data.id_map,
                          !.store.next_id = disk.meta_file.data.next_id,
                          !.store.dimension = disk.meta_file.data.dimension]
    /\ UNCHANGED <<disk, writer>>
    /\ UnchangedBySave

NextSaveRace ==
    \/ SaveCheck
    \/ WriteIndexOpen
    \/ WriteIndexEnd
    \/ DumpOpen
    \/ DumpEnd
    \/ LoadExists
    \/ LoadReadIndex
    \/ LoadPickle

SpecSaveRace == InitSaveRace /\ [][NextSaveRace]_vars

\* C7: a load that runs while another thread executes save() yields the store
\* of the directory before the save or of the directory after it.
C7_LoadSeesSaveAtomically ==
    reader.pc = "loaded" =>
        \/ reader.store = FreshStore(embedDim, snapshot.disk)
        \/ reader.store = FreshStore(embedDim, Save(store, snapshot.disk))

\* a load that finishes before save() starts sees the directory as it was
LoadBeforeSave ==
    (reader.pc = "loaded" /\ writer.pc = "save") =>
        reader.store = FreshStore(embedDim, snapshot.disk)

(***************************************************************************)
(* search() on one worker thread while another runs add() or               *)
(* delete_by_doc_id() on the same FAISSVectorStore singleton.  No method   *)
(* takes a lock; each step is a statement (or a read-only run of           *)
(* statements) of the method.                                              *)
(***************************************************************************)
NoWriter ==
    [pc |-> "idle", op |-> "none", doc |-> 0, n |-> 0, i |-> 0, keep_ids |-> {},
     new_embeddings |-> <<>>, new_texts |-> <<>>, new_metadata |-> <<>>,
     new_id_map |-> <<>>]

NoReader ==
    [pc |-> "search", q |-> <<>>, k |-> 0, doc_ids |-> {}, min_score |-> 0,
     search_k |-> 0, hits |-> <<>>, i |-> 0, out |-> <<>>]

\* The store holds document 1 and possibly document 2 (ingested one after the
\* other); the writer is about to delete a document or to add document 2.
InitSearchRace ==
    /\ embedDim \in Dims
    /\ \E n1 \in 1..MaxChunks, n2 \in 0..MaxChunks, op \in {"add", "delete"},
          doc \in Docs, n \in 0..MaxChunks :
          /\ n1 + n2 + n <= MaxVecs
          /\ op = "add" => (doc = 2 /\ n2 = 0 /\ n >= 1)
          /\ op = "delete" => n = 0
          /\ store = StoreWith(StoreWith(NewStore(embedDim), 1, n1, embedDim),
                               2, n2, embedDim)
          /\ writer = [NoWriter EXCEPT !.pc = op, !.op = op, !.doc = doc, !.n = n]
    /\ disk = Save(store, EmptyDisk)
    /\ documents = [d \in Docs |-> NoDocument]
    /\ last = NoOp
    /\ results = <<>>
    /\ reader = NoReader
    /\ snapshot = [store |-> store, disk |-> disk]
    /\ ChatInit
    /\ call = NoCall

UnchangedByRace == UNCHANGED <<disk, embedDim, documents, last, snapshot, chat, call>>

\* add: the length and dimension checks and _get_or_create_index
AddBegin ==
    /\ writer.pc = "add"
    /\ writer' = [writer EXCEPT !.pc = "generate_ids", !.i = 1]
    /\ store' = GetOrCreateIndex([store EXCEPT !.dimension = embedDim])
    /\ UNCHANGED <<reader, results>>
    /\ UnchangedByRace

\* add: one pass of `for i, meta in enumerate(metadatas)`
AddGenerateId ==
    /\ writer.pc = "generate_ids"
    /\ IF writer.i > writer.n
       THEN /\ writer' = [writer EXCEPT !.pc = "index_add"]
            /\ UNCHANGED store
       ELSE /\ store' = GenerateId(store, ChunkText(writer.doc, writer.i - 1),
                           ChunkWithMetadata(writer.doc, writer.n, 0)[writer.i]).store
            /\ writer' = [writer EXCEPT !.i = @ + 1]
    /\ UNCHANGED <<reader, results>>
    /\ UnchangedByRace

\* add: index.add(embeddings)
AddVectors ==
    /\ writer.pc = "index_add"
    /\ store' = [store EXCEPT !.index = IndexAdd(@,
                    [i \in 1..writer.n |-> EmbedText(writer.doc, i - 1, embedDim)])]
    /\ writer' = [writer EXCEPT !.pc = "done"]
    /\ UNCHANGED <<reader, results>>
    /\ UnchangedByRace

\* delete_by_doc_id up to the call of _rebuild_index
DeleteBegin ==
    /\ writer.pc = "delete"
    /\ LET keep_ids == KeepIds(store, writer.doc)
       IN  writer' = IF IndexIsEmpty(store)
                        \/ Cardinality(keep_ids) = Cardinality(DOMAIN store.metadata)
                     THEN [writer EXCEPT !.pc = "done"]
                     ELSE [writer EXCEPT !.pc = "collect", !.keep_ids = keep_ids]
    /\ UNCHANGED <<store, reader, results>>
    /\ UnchangedByRace

\* _rebuild_index: the collecting loop (reads only)
RebuildCollectStep ==
    /\ writer.pc = "collect"
    /\ LET new == RebuildCollect(store, writer.keep_ids)
       IN  writer' = [writer EXCEPT !.pc = "new_index",
                                    !.new_embeddings = new.new_embeddings,
                                    !.new_texts = new.new_texts,
                                    !.new_metadata = new.new_metadata,
                                    !.new_id_map = new.new_id_map]
    /\ UNCHANGED <<store, reader, results>>
    /\ UnchangedByRace

\* `self._index = faiss.IndexFlatIP(self.dimension)`
RebuildNewIndex ==
    /\ writer.pc = "new_index"
    /\ store' = [store EXCEPT !.index = IndexFlatIP(store.dimension)]
    /\ writer' = [writer EXCEPT !.pc = "rebuild_add"]
    /\ UNCHANGED <<reader, results>>
    /\ UnchangedByRace

\* `if new_embeddings: self._index.add(embeddings_array)`
RebuildAdd ==
    /\ writer.pc = "rebuild_add"
    /\ store' = [store EXCEPT !.index = IndexAdd(@, writer.new_embeddings)]
    /\ writer' = [writer EXCEPT !.pc = "texts"]
    /\ UNCHANGED <<reader, results>>
    /\ UnchangedByRace

\* `self._texts = new_texts`
RebuildTexts ==
    /\ writer.pc = "texts"
    /\ store' = [store EXCEPT !.texts = writer.new_texts]
    /\ writer' = [writer EXCEPT !.pc = "metadata"]
    /\ UNCHANGED <<reader, results>>
    /\ UnchangedByRace

\* `self._metadata = new_metadata`
RebuildMetadata ==
    /\ writer.pc = "metadata"
    /\ store' = [store EXCEPT !.metadata = writer.new_metadata]
    /\ writer' = [writer EXCEPT !.pc = "id_map"]
    /\ UNCHANGED <<reader, results>>
    /\ UnchangedByRace

\* `self._id_map = new_id_map`
RebuildIdMap ==
    /\ writer.pc = "id_map"
    /\ store' = [store EXCEPT !.id_map = writer.new_id_map]
    /\ writer' = [writer EXCEPT !.pc = "done"]
    /\ UNCHANGED <<reader, results>>
    /\ UnchangedByRace

\* search: the emptiness check and the computation of search_k
SearchBegin(q, k, doc_ids, min_score) ==
    /\ reader.pc = "search"
    /\ IF IndexIsEmpty(store)
       THEN /\ reader' = [reader EXCEPT !.pc = "returned", !.q = q, !.k = k,
                                        !.doc_ids = doc_ids, !.min_score = min_score]
            /\ results' = <<>>
       ELSE /\ reader' = [reader EXCEPT !.pc = "index_search", !.q = q, !.k = k,
                             !.doc_ids = doc_ids, !.min_score = min_score,
                             !.search_k = SearchK(store.index, k, doc_ids)]
            /\ UNCHANGED results
    /\ UNCHANGED <<store, writer>>
    /\ UnchangedByRace

\* `scores, indices = self._index.search(query_embedding, search_k)`; an index
\* with fewer than search_k vectors pads the answer with idx -1, which the
\* loop skips
SearchIndex ==
    /\ reader.pc = "index_search"
    /\ \E hits \in IndexSearch(store.index, reader.q,
                               Min(reader.search_k, Ntotal(store.index))) :
          reader' = [reader EXCEPT !.pc = "loop", !.hits = hits, !.i = 1]
    /\ UNCHANGED <<store, writer, results>>
    /\ UnchangedByRace

\* one pass of `for score, idx in zip(scores[0], indices[0])`, then return
SearchLoopStep ==
    /\ reader.pc = "loop"
    /\ IF reader.i > Len(reader.hits)
       THEN /\ reader' = [reader EXCEPT !.pc = "returned"]
            /\ results' = reader.out
       ELSE LET out1 == reader.out \o LoopBody(store, reader.hits[reader.i],
                                               reader.doc_ids, reader.min_score)
            IN  IF Len(out1) > Len(reader.out) /\ Len(out1) >= reader.k
                THEN /\ reader' = [reader EXCEPT !.pc = "returned", !.out = out1]
                     /\ results' = out1
                ELSE /\ reader' = [reader EXCEPT !.i = @ + 1, !.out = out1]
                     /\ UNCHANGED results
    /\ UNCHANGED <<store, writer>>
    /\ UnchangedByRace

NextSearchRace ==
    \/ AddBegin
    \/ AddGenerateId
    \/ AddVectors
    \/ DeleteBegin
    \/ RebuildCollectStep
    \/ RebuildNewIndex
    \/ RebuildAdd
    \/ RebuildTexts
    \/ RebuildMetadata
    \/ RebuildIdMap
    \/ \E q \in Queries(embedDim), k \in 1..MaxK, doc_ids \in DocFilters,
          min_score \in MinScores : SearchBegin(q, k, doc_ids, min_score)
    \/ SearchIndex
    \/ SearchLoopStep

SpecSearchRace == InitSearchRace /\ [][NextSearchRace]_vars

\* the store the writer's call produces when it runs alone
WriterOutcome ==
    IF writer.op = "delete" THEN DeleteByDocId(snapshot.store, writer.doc)
    ELSE StoreWith(snapshot.store, writer.doc, writer.n, embedDim)

\* C8: a search that runs concurrently with add or delete_by_doc_id returns
\* what it returns on the store before the mutation or on the store after it.
C8_SearchSeesNoIntermediateState ==
    reader.pc = "returned" =>
        results \in Search(snapshot.store, reader.q, reader.k, reader.doc_ids,
                           reader.min_score)
                    \cup Search(WriterOutcome, reader.q, reader.k, reader.doc_ids,
                                reader.min_score)

\* the stepwise writer and reader, run one after the other, do what Add,
\* DeleteByDocId and Search do
RaceStepsAgree ==
    /\ writer.pc = "done" => store = WriterOutcome
    /\ (reader.pc = "returned" /\ writer.pc \in {"add", "delete"}) =>
          results \in Search(snapshot.store, reader.q, reader.k, reader.doc_ids,
                             reader.min_score)

(***************************************************************************)
(* Text.  A str is the sequence of its characters; the queries of the      *)
(* model are written with letters, blanks, "," "?" and "'".                *)
(***************************************************************************)
Letters ==
    <<"a", "b", "c", "d", "e", "f", "g", "h", "i", "j", "k", "l", "m", "n", "o", "p", "q", "r", "s", "t", "u", "v", "w", "x", "y", "z">>
Capitals ==
    <<"A", "B", "C", "D", "E", "F", "G", "H", "I", "J", "K", "L", "M", "N", "O", "P", "Q", "R", "S", "T", "U", "V", "W", "X", "Y", "Z">>

IsLetter(c) == \E j \in 1..26 : Letters[j] = c \/ Capitals[j] = c
IsSpace(c) == c \in {" ", "\n", "\t"}

\* str.lower()
Lower(s) ==
    [i \in 1..Len(s) |->
        IF \E j \in 1..26 : Capitals[j] = s[i]
        THEN Letters[CHOOSE j \in 1..26 : Capitals[j] = s[i]]
        ELSE s[i]]

\* the literal pat occurs in s at position i
MatchAt(pat, s, i) ==
    /\ i >= 1
    /\ i + Len(pat) - 1 <= Len(s)
    /\ \A j \in 1..Len(pat) : s[i + j - 1] = pat[j]

\* `pat in s`
Contains(pat, s) == \E i \in 1..(Len(s) + 1) : MatchAt(pat, s, i)

\* str.split(): the maximal runs of characters that are not whitespace
Split(s) ==
    LET starts == {i \in 1..Len(s) : ~IsSpace(s[i]) /\ (i = 1 \/ IsSpace(s[i - 1]))}
        start(k) == CHOOSE i \in starts : Cardinality({j \in starts : j < i}) = k - 1
        end(i) == CHOOSE j \in i..Len(s) :
                     /\ \A m \in i..j : ~IsSpace(s[m])
                     /\ j = Len(s) \/ IsSpace(s[j + 1])
    IN  [k \in 1..Cardinality(starts) |-> SubSeq(s, start(k), end(start(k)))]

\* ' '.join(words)
RECURSIVE JoinWords(_)
JoinWords(words) ==
    IF Len(words) = 0 THEN <<>>
    ELSE IF Len(words) = 1 THEN words[1]
    ELSE words[1] \o <<" ">> \o JoinWords(Tail(words))

\* the first position at or after i that holds no blank (regex `\s*`)
RECURSIVE SkipSpaces(_, _)
SkipSpaces(s, i) ==
    IF i <= Len(s) /\ IsSpace(s[i]) THEN SkipSpaces(s, i + 1) ELSE i

\* str.strip()
RECURSIVE Strip(_)
Strip(s) ==
    IF Len(s) = 0 THEN s
    ELSE IF IsSpace(s[1]) THEN Strip(Tail(s))
    ELSE IF IsSpace(s[Len(s)]) THEN Strip(SubSeq(s, 1, Len(s) - 1))
    ELSE s

\* regex `\b` after position p of s, where s[p] is a letter
BoundaryAfter(s, p) == p = Len(s) \/ ~IsLetter(s[p + 1])

SeqToSet(seq) == {seq[i] : i \in 1..Len(seq)}

(***************************************************************************)
(* QueryProcessor (backend/rag/query_processor.py)                         *)
(***************************************************************************)
filler_patterns_1 ==
    <<<<"h", "e", "y">>, <<"h", "i">>, <<"h", "e", "l", "l", "o">>, <<"p", "l", "e", "a", "s", "e">>, <<"c", "a", "n", " ", "y", "o", "u">>, <<"c", "o", "u", "l", "d", " ", "y", "o", "u">>, <<"w", "o", "u", "l", "d", " ", "y", "o", "u">>, <<"i", " ", "w", "a", "n", "t", " ", "y", "o", "u", " ", "t", "o">>>>
filler_patterns_2 ==
    <<<<"t", "e", "l", "l", " ", "m", "e">>, <<"h", "e", "l", "p", " ", "m", "e">>, <<"i", " ", "n", "e", "e", "d", " ", "t", "o">>, <<"i", " ", "w", "a", "n", "t", " ", "t", "o">>>>

\* re.sub('^(a|b|...)', '', s, IGNORECASE) followed by the optional tail of the
\* pattern: the first alternative that matches at the start is the one
\* removed; comma says whether the tail is `\s*,?\s*` or `\s*`
RemoveFiller(s, alternatives, comma) ==
    LET low == Lower(s)
        found == {j \in 1..Len(alternatives) : MatchAt(alternatives[j], low, 1)}
    IN  IF found = {} THEN s
        ELSE LET j == CHOOSE x \in found : \A y \in found : x <= y
                 a == SkipSpaces(s, Len(alternatives[j]) + 1)
                 b == IF comma /\ a <= Len(s) /\ s[a] = "," THEN a + 1 ELSE a
                 c == IF comma THEN SkipSpaces(s, b) ELSE b
             IN  SubSeq(s, c, Len(s))

clean_query(query) ==
    Strip(RemoveFiller(RemoveFiller(JoinWords(Split(query)), filler_patterns_1, TRUE),
                       filler_patterns_2, FALSE))

\* INTENT_PATTERNS in dict order; parts <<a, b>> is the regex `a.+b`
INTENT_PATTERNS == <<
    [intent |-> "SUMMARY", patterns |-> <<
        [anchored |-> TRUE, parts |-> <<<<"s", "u", "m", "m", "a", "r">>>>],
        [anchored |-> FALSE, parts |-> <<<<"g", "i", "v", "e", " ", "m", "e", " ", "a", " ", "s", "u", "m", "m", "a", "r", "y">>>>],
        [anchored |-> FALSE, parts |-> <<<<"b", "r", "i", "e", "f", " ", "o", "v", "e", "r", "v", "i", "e", "w">>>>],
        [anchored |-> FALSE, parts |-> <<<<"m", "a", "i", "n", " ", "p", "o", "i", "n", "t", "s">>>>],
        [anchored |-> FALSE, parts |-> <<<<"k", "e", "y", " ", "p", "o", "i", "n", "t", "s">>>>],
        [anchored |-> FALSE, parts |-> <<<<"t", "l", "d", "r">>>>],
        [anchored |-> FALSE, parts |-> <<<<"i", "n", " ", "s", "h", "o", "r", "t">>>>]>>],
    [intent |-> "EXPLAIN", patterns |-> <<
        [anchored |-> TRUE, parts |-> <<<<"e", "x", "p", "l", "a", "i", "n">>>>],
        [anchored |-> TRUE, parts |-> <<<<"w", "h", "a", "t", " ", "i", "s">>>>],
        [anchored |-> TRUE, parts |-> <<<<"w", "h", "a", "t", " ", "a", "r", "e">>>>],
        [anchored |-> FALSE, parts |-> <<<<"h", "o", "w", " ", "d", "o", "e", "s">>>>],
        [anchored |-> FALSE, parts |-> <<<<"h", "o", "w", " ", "d", "o">>>>],
        [anchored |-> FALSE, parts |-> <<<<"c", "l", "a", "r", "i", "f", "y">>>>],
        [anchored |-> FALSE, parts |-> <<<<"d", "e", "s", "c", "r", "i", "b", "e">>>>],
        [anchored |-> FALSE, parts |-> <<<<"m", "e", "a", "n", "i", "n", "g", " ", "o", "f">>>>]>>],
    [intent |-> "COMPARE", patterns |-> <<
        [anchored |-> FALSE, parts |-> <<<<"c", "o", "m", "p", "a", "r", "e">>>>],
        [anchored |-> FALSE, parts |-> <<<<"d", "i", "f", "f", "e", "r", "e", "n", "c", "e", " ", "b", "e", "t", "w", "e", "e", "n">>>>],
        [anchored |-> FALSE, parts |-> <<<<"d", "i", "f", "f", "e", "r", "e", "n", "c", "e", "s", " ", "b", "e", "t", "w", "e", "e", "n">>>>],
        [anchored |-> FALSE, parts |-> <<<<"h", "o", "w", " ", "a", "r", "e", " ">>, <<" ", "d", "i", "f", "f", "e", "r", "e", "n", "t">>>>],
        [anchored |-> FALSE, parts |-> <<<<"v", "e", "r", "s", "u", "s">>>>],
        [anchored |-> FALSE, parts |-> <<<<" ", "v", "s", " ">>>>],
        [anchored |-> FALSE, parts |-> <<<<"c", "o", "n", "t", "r", "a", "s", "t">>>>],
        [anchored |-> FALSE, parts |-> <<<<"s", "i", "m", "i", "l", "a", "r", "i", "t", "i", "e", "s">>>>]>>],
    [intent |-> "FIND", patterns |-> <<
        [anchored |-> TRUE, parts |-> <<<<"f", "i", "n", "d">>>>],
        [anchored |-> TRUE, parts |-> <<<<"l", "o", "c", "a", "t", "e">>>>],
        [anchored |-> TRUE, parts |-> <<<<"w", "h", "e", "r", "e", " ", "i", "s">>>>],
        [anchored |-> TRUE, parts |-> <<<<"w", "h", "e", "r", "e", " ", "a", "r", "e">>>>],
        [anchored |-> FALSE, parts |-> <<<<"s", "h", "o", "w", " ", "m", "e">>>>],
        [anchored |-> FALSE, parts |-> <<<<"l", "o", "o", "k", " ", "f", "o", "r">>>>],
        [anchored |-> FALSE, parts |-> <<<<"s", "e", "a", "r", "c", "h", " ", "f", "o", "r">>>>]>>],
    [intent |-> "LIST", patterns |-> <<
        [anchored |-> TRUE, parts |-> <<<<"l", "i", "s", "t">>>>],
        [anchored |-> FALSE, parts |-> <<<<"w", "h", "a", "t", " ", "a", "r", "e", " ", "a", "l", "l">>>>],
        [anchored |-> FALSE, parts |-> <<<<"e", "n", "u", "m", "e", "r", "a", "t", "e">>>>],
        [anchored |-> FALSE, parts |-> <<<<"g", "i", "v", "e", " ", "m", "e", " ", "a", "l", "l">>>>],
        [anchored |-> FALSE, parts |-> <<<<"a", "l", "l", " ", "t", "h", "e", " ">>, <<" ", "i", "n">>>>]>>]>>

\* re.search(pattern, s)
SearchPattern(p, s) ==
    IF Len(p.parts) = 1
    THEN IF p.anchored THEN MatchAt(p.parts[1], s, 1) ELSE Contains(p.parts[1], s)
    ELSE \E i \in 1..Len(s) :
            /\ MatchAt(p.parts[1], s, i)
            /\ \E j \in (i + Len(p.parts[1]) + 1)..Len(s) : MatchAt(p.parts[2], s, j)

detect_intent(query) ==
    LET query_lower == Lower(query)
        hit == {a \in 1..Len(INTENT_PATTERNS) :
                   \E b \in 1..Len(INTENT_PATTERNS[a].patterns) :
                      SearchPattern(INTENT_PATTERNS[a].patterns[b], query_lower)}
    IN  IF hit = {} THEN "QUESTION"
        ELSE INTENT_PATTERNS[CHOOSE a \in hit : \A b \in hit : a <= b].intent

INTENT_K_VALUES(intent) ==
    CASE intent = "SUMMARY" -> 10
      [] intent = "EXPLAIN" -> 5
      [] intent = "COMPARE" -> 8
      [] intent = "FIND" -> 3
      [] intent = "LIST" -> 10
      [] OTHER -> 5

\* determine_k with the boundaries counted in: 20 words already raise K
determine_k_inclusive(intent, query) ==
    LET base_k == INTENT_K_VALUES(intent)
        word_count == Len(Split(query))
    IN  IF word_count >= 20 THEN Min(base_k + 3, 15)
        ELSE IF word_count <= 5 THEN Max(base_k - 2, 3)
        ELSE base_k

determine_k(intent, query) ==
    LET base_k == INTENT_K_VALUES(intent)
        word_count == Len(Split(query))
    IN  IF word_count > 20 THEN Min(base_k + 3, 15)
        ELSE IF word_count < 5 THEN Max(base_k - 2, 3)
        ELSE base_k

stopwords == {
    <<"t", "h", "e">>, <<"a">>, <<"a", "n">>, <<"i", "s">>,
    <<"a", "r", "e">>, <<"w", "a", "s">>, <<"w", "e", "r", "e">>, <<"b", "e">>,
    <<"b", "e", "e", "n">>, <<"b", "e", "i", "n", "g">>, <<"h", "a", "v", "e">>, <<"h", "a", "s">>,
    <<"h", "a", "d">>, <<"d", "o">>, <<"d", "o", "e", "s">>, <<"d", "i", "d">>,
    <<"w", "i", "l", "l">>, <<"w", "o", "u", "l", "d">>, <<"c", "o", "u", "l", "d">>, <<"s", "h", "o", "u", "l", "d">>,
    <<"m", "a", "y">>, <<"m", "i", "g", "h", "t">>, <<"c", "a", "n">>, <<"t", "h", "i", "s">>,
    <<"t", "h", "a", "t">>, <<"t", "h", "e", "s", "e">>, <<"t", "h", "o", "s", "e">>, <<"i">>,
    <<"y", "o", "u">>, <<"h", "e">>, <<"s", "h", "e">>, <<"i", "t">>,
    <<"w", "e">>, <<"t", "h", "e", "y">>, <<"w", "h", "a", "t">>, <<"w", "h", "i", "c", "h">>,
    <<"w", "h", "o">>, <<"w", "h", "o", "m">>, <<"w", "h", "e", "r", "e">>, <<"w", "h", "e", "n">>,
    <<"w", "h", "y">>, <<"h", "o", "w">>, <<"a", "l", "l">>, <<"e", "a", "c", "h">>,
    <<"e", "v", "e", "r", "y">>, <<"b", "o", "t", "h">>, <<"f", "e", "w">>, <<"m", "o", "r", "e">>,
    <<"m", "o", "s", "t">>, <<"o", "t", "h", "e", "r">>, <<"s", "o", "m", "e">>, <<"s", "u", "c", "h">>,
    <<"n", "o">>, <<"n", "o", "t">>, <<"o", "n", "l", "y">>, <<"s", "a", "m", "e">>,
    <<"s", "o">>, <<"t", "h", "a", "n">>, <<"t", "o", "o">>, <<"v", "e", "r", "y">>,
    <<"j", "u", "s", "t">>, <<"a", "b", "o", "u", "t">>, <<"i", "n", "t", "o">>, <<"f", "r", "o", "m">>,
    <<"w", "i", "t", "h">>, <<"f", "o", "r">>, <<"o", "n">>, <<"a", "t">>,
    <<"b", "y">>, <<"t", "o">>, <<"o", "f">>, <<"i", "n">>,
    <<"a", "n", "d">>, <<"o", "r">>, <<"b", "u", "t">>, <<"m", "e">>,
    <<"m", "y">>, <<"m", "y", "s", "e", "l", "f">>, <<"o", "u", "r">>, <<"o", "u", "r", "s">>,
    <<"y", "o", "u", "r">>, <<"y", "o", "u", "r", "s">>}

\* re.findall(r'\b[a-zA-Z]{2,}\b', s): with the characters above, the maximal
\* runs of two or more letters
RECURSIVE LetterRuns(_, _, _)
LetterRuns(s, i, word) ==
    IF i > Len(s) THEN (IF Len(word) >= 2 THEN <<word>> ELSE <<>>)
    ELSE IF IsLetter(s[i]) THEN LetterRuns(s, i + 1, Append(word, s[i]))
    ELSE (IF Len(word) >= 2 THEN <<word>> ELSE <<>>) \o LetterRuns(s, i + 1, <<>>)

\* unique keywords preserving order
RECURSIVE Unique(_, _)
Unique(words, seen) ==
    IF Len(words) = 0 THEN <<>>
    ELSE IF words[1] \in seen THEN Unique(Tail(words), seen)
    ELSE <<words[1]>> \o Unique(Tail(words), seen \cup {words[1]})

extract_keywords(query) ==
    LET words == LetterRuns(Lower(query), 1, <<>>)
        keywords == SelectSeq(words, LAMBDA w : w \notin stopwords)
    IN  Unique(keywords, {})

\* QueryProcessor.process without the embedding
Process(query) ==
    LET cleaned == clean_query(query)
        intent == detect_intent(cleaned)
    IN  [original_query |-> query, cleaned_query |-> cleaned, intent |-> intent,
         suggested_k |-> determine_k(intent, cleaned),
         keywords |-> extract_keywords(cleaned)]

(***************************************************************************)
(* SessionContext and SessionMemory (backend/rag/session_memory.py)        *)
(***************************************************************************)
follow_up_patterns == <<
    <<"e", "x", "p", "l", "a", "i", "n", " ", "m", "o", "r", "e">>, <<"t", "e", "l", "l", " ", "m", "e", " ", "m", "o", "r", "e">>, <<"e", "l", "a", "b", "o", "r", "a", "t", "e">>,
    <<"w", "h", "a", "t", " ", "a", "b", "o", "u", "t">>, <<"h", "o", "w", " ", "a", "b", "o", "u", "t">>, <<"a", "n", "d", " ", "w", "h", "a", "t">>,
    <<"c", "a", "n", " ", "y", "o", "u", " ", "c", "l", "a", "r", "i", "f", "y">>, <<"w", "h", "a", "t", " ", "d", "o", " ", "y", "o", "u", " ", "m", "e", "a", "n">>, <<"i", "n", " ", "o", "t", "h", "e", "r", " ", "w", "o", "r", "d", "s">>,
    <<"s", "i", "m", "p", "l", "e", "r">>, <<"m", "o", "r", "e", " ", "d", "e", "t", "a", "i", "l">>, <<"w", "h", "y", " ", "i", "s", " ", "t", "h", "a", "t">>,
    <<"h", "o", "w", " ", "d", "o", "e", "s", " ", "t", "h", "a", "t">>, <<"w", "h", "a", "t", " ", "e", "l", "s", "e">>, <<"r", "e", "l", "a", "t", "e", "d", " ", "t", "o", " ", "t", "h", "a", "t">>,
    <<"r", "e", "g", "a", "r", "d", "i", "n", "g", " ", "t", "h", "a", "t">>, <<"o", "n", " ", "t", "h", "a", "t", " ", "n", "o", "t", "e">>, <<"a", "l", "s", "o">>,
    <<"a", "d", "d", "i", "t", "i", "o", "n", "a", "l", "l", "y">>, <<"w", "h", "a", "t", "'", "s", " ", "t", "h", "a", "t">>>>
pronouns_1 ==
    <<<<"i", "t">>, <<"t", "h", "i", "s">>, <<"t", "h", "a", "t">>, <<"t", "h", "e", "s", "e">>, <<"t", "h", "o", "s", "e">>, <<"t", "h", "e", "y">>>>
pronouns_2 ==
    <<<<"w", "h", "a", "t", " ", "i", "s", " ", "i", "t">>, <<"w", "h", "a", "t", " ", "i", "s", " ", "t", "h", "e", "y">>, <<"w", "h", "a", "t", " ", "i", "s", " ", "t", "h", "e", "s", "e">>, <<"w", "h", "a", "t", " ", "i", "s", " ", "t", "h", "o", "s", "e">>, <<"w", "h", "a", "t", " ", "a", "r", "e", " ", "i", "t">>, <<"w", "h", "a", "t", " ", "a", "r", "e", " ", "t", "h", "e", "y">>, <<"w", "h", "a", "t", " ", "a", "r", "e", " ", "t", "h", "e", "s", "e">>, <<"w", "h", "a", "t", " ", "a", "r", "e", " ", "t", "h", "o", "s", "e">>>>
pronouns_3 ==
    <<<<"e", "x", "p", "l", "a", "i", "n", " ", "i", "t">>, <<"e", "x", "p", "l", "a", "i", "n", " ", "t", "h", "i", "s">>, <<"e", "x", "p", "l", "a", "i", "n", " ", "t", "h", "a", "t">>, <<"d", "e", "s", "c", "r", "i", "b", "e", " ", "i", "t">>, <<"d", "e", "s", "c", "r", "i", "b", "e", " ", "t", "h", "i", "s">>, <<"d", "e", "s", "c", "r", "i", "b", "e", " ", "t", "h", "a", "t">>, <<"s", "u", "m", "m", "a", "r", "i", "z", "e", " ", "i", "t">>, <<"s", "u", "m", "m", "a", "r", "i", "z", "e", " ", "t", "h", "i", "s">>, <<"s", "u", "m", "m", "a", "r", "i", "z", "e", " ", "t", "h", "a", "t">>>>

\* SessionContext.is_follow_up
is_follow_up(ctx, query) ==
    LET query_lower == Lower(query)
        query_words == SeqToSet(Split(query_lower))
        topic_words == {Lower(w) : w \in SeqToSet(ctx.topic_keywords)}
    IN  \/ \E p \in 1..Len(follow_up_patterns) :
              Contains(follow_up_patterns[p], query_lower)
        \/ \E p \in 1..Len(pronouns_1) :
              /\ MatchAt(pronouns_1[p], query_lower, 1)
              /\ Len(query_lower) > Len(pronouns_1[p])
              /\ IsSpace(query_lower[Len(pronouns_1[p]) + 1])
        \/ \E p \in 1..Len(pronouns_2) :
              /\ MatchAt(pronouns_2[p], query_lower, 1)
              /\ BoundaryAfter(query_lower, Len(pronouns_2[p]))
        \/ \E p \in 1..Len(pronouns_3) :
              /\ MatchAt(pronouns_3[p], query_lower, 1)
              /\ BoundaryAfter(query_lower, Len(pronouns_3[p]))
        \/ /\ Len(ctx.topic_keywords) > 0
           /\ Cardinality(query_words \cap topic_words) >= 2

\* seq[-n:]
LastN(seq, n) == SubSeq(seq, Max(1, Len(seq) - n + 1), Len(seq))

\* the largest set whose orders are all told apart
MaxPermuted == 3

\* the elements of S in one order
RECURSIVE Enumerate(_)
Enumerate(S) ==
    IF S = {} THEN <<>>
    ELSE LET x == CHOOSE y \in S : TRUE IN <<x>> \o Enumerate(S \ {x})

\* list(set(items)): the elements of the set in an order Python does not fix
\* (it follows the hashes of the strings, which change from process to
\* process); of a set of more than MaxPermuted elements only the rotations
\* of one order are told apart
ListOfSet(S) ==
    IF Cardinality(S) <= MaxPermuted
    THEN {f \in [1..Cardinality(S) -> S] :
            \A i, j \in 1..Cardinality(S) : i # j => f[i] # f[j]}
    ELSE LET n == Cardinality(S)
             one == Enumerate(S)
         IN  {[i \in 1..n |-> one[((i + r - 1) % n) + 1]] : r \in 0..(n - 1)}

\* SessionContext.update: the contexts the call can leave
SessionUpdate(ctx, query, chunks, keywords, now) ==
    {[ctx EXCEPT !.last_query = query,
                 !.last_chunks = SubSeq(chunks, 1, Min(10, Len(chunks))),
                 !.query_history = Append(@, query),
                 !.topic_keywords = LastN(merged, 30),
                 !.last_updated = now] :
        merged \in ListOfSet(SeqToSet(LastN(ctx.topic_keywords, 20) \o keywords))}

\* _cleanup_expired
CleanupExpired(ss, now) ==
    [cid \in DOMAIN ss |->
        IF ss[cid].present /\ now - ss[cid].last_updated > SESSION_TIMEOUT
        THEN NoSession ELSE ss[cid]]

\* get_session: the session map afterwards
GetSession(ss, conversation_id, now) ==
    LET swept == CleanupExpired(ss, now)
    IN  IF ~swept[conversation_id].present
        THEN [swept EXCEPT ![conversation_id] =
                 [NoSession EXCEPT !.present = TRUE, !.last_updated = now]]
        ELSE swept

\* update_session: the session maps the call can leave
UpdateSession(ss, conversation_id, query, chunks, keywords, now) ==
    LET got == GetSession(ss, conversation_id, now)
    IN  {[cid \in DOMAIN got |-> IF cid = conversation_id THEN ctx ELSE got[cid]] :
            ctx \in SessionUpdate(got[conversation_id], query, chunks, keywords, now)}

GetPreviousChunks(ss, conversation_id) ==
    IF ss[conversation_id].present THEN ss[conversation_id].last_chunks ELSE <<>>

IsFollowUpQuery(ss, conversation_id, query) ==
    /\ ss[conversation_id].present
    /\ Len(ss[conversation_id].last_query) > 0
    /\ is_follow_up(ss[conversation_id], query)

\* the chunks of `chunks` whose chunk_id is not in seen_ids, first ones first
RECURSIVE Combine(_, _)
Combine(chunks, seen_ids) ==
    IF Len(chunks) = 0 THEN <<>>
    ELSE IF chunks[1].chunk_id \in seen_ids THEN Combine(Tail(chunks), seen_ids)
    ELSE <<chunks[1]>> \o Combine(Tail(chunks), seen_ids \cup {chunks[1].chunk_id})

GetContextForFollowUp(ss, conversation_id, new_chunks) ==
    LET previous == GetPreviousChunks(ss, conversation_id)
    IN  IF Len(previous) = 0 THEN new_chunks
        ELSE Combine(new_chunks \o previous, {})

(***************************************************************************)
(* RAGService.retrieve and ChatViewSet.send (backend/chat/views.py).       *)
(* Requests are handled by worker threads of one process; send takes no    *)
(* lock, so its calls into the session memory interleave.                  *)
(***************************************************************************)
\* the embedding model on a query: a deterministic function of the text
EmbedQuery(text, dim) == [i \in 1..dim |-> ((Len(text) + i) % 3) - 1]

\* retrieve(query, doc_ids, k): k = 0 stands for None; the enriched dicts
Retrieve(s, query, doc_ids, k, dim) ==
    LET processed == Process(query)
        search_k == IF k # 0 THEN k ELSE processed.suggested_k
    IN  {[i \in 1..Len(res) |->
            [chunk_id |-> res[i].chunk_id, doc_id |-> res[i].doc_id,
             text |-> res[i].text, score |-> res[i].score,
             chunk_index |-> res[i].metadata.chunk_index]] :
          res \in Search(s, EmbedQuery(processed.cleaned_query, dim), search_k,
                         doc_ids, 0)}

\* the message texts sent by the clients
Texts == {
    <<"W", "h", "a", "t", " ", "i", "s", " ", "a", "n", " ", "A", "I", " ", "m", "o", "d", "e", "l", "?">>,
    <<"T", "e", "l", "l", " ", "m", "e", " ", "m", "o", "r", "e">>}

\* the store of the chat scenario: two ingested documents
ChatStore(dim) == StoreWith(StoreWith(NewStore(dim), 1, 2, dim), 2, 1, dim)

InitTurns ==
    /\ embedDim = MaxDim
    /\ store = ChatStore(embedDim)
    /\ disk = Save(store, EmptyDisk)
    /\ documents = [d \in Docs |-> NoDocument]
    /\ last = NoOp
    /\ results = <<>>
    /\ writer = Idle
    /\ reader = Idle
    /\ snapshot = [store |-> store, disk |-> disk]
    /\ ChatInit
    /\ call = NoCall

UnchangedBySend ==
    UNCHANGED <<store, disk, embedDim, documents, last, results, threads, call>>

\* send up to and including `Message.objects.create(role='user')`
SendBegin(w, conversation_id, message_content, document_ids) ==
    /\ turns[w].pc = "idle"
    /\ messages < MaxMessages
    /\ messages' = messages + 1
    /\ turns' = [turns EXCEPT ![w] =
                    [IdleTurn EXCEPT !.pc = "check", !.cid = conversation_id,
                                     !.message = message_content,
                                     !.document_ids = document_ids,
                                     !.arrival = messages + 1]]
    /\ UNCHANGED <<sessions, clock>>
    /\ UnchangedBySend

\* `is_follow_up = session_memory.is_follow_up_query(conversation.id, message_content)`
SendCheck(w) ==
    /\ turns[w].pc = "check"
    /\ turns' = [turns EXCEPT ![w].pc = "retrieve",
                    ![w].is_follow_up =
                        IsFollowUpQuery(sessions, turns[w].cid, turns[w].message)]
    /\ UNCHANGED <<sessions, clock, messages>>
    /\ UnchangedBySend

\* `rag_service.retrieve(..., k=10 if is_follow_up else None)`
SendRetrieve(w) ==
    /\ turns[w].pc = "retrieve"
    /\ IF turns[w].document_ids # {}
       THEN \E chunks \in Retrieve(store, turns[w].message, turns[w].document_ids,
                                   IF turns[w].is_follow_up THEN 10 ELSE 0, embedDim) :
               turns' = [turns EXCEPT
                            ![w].pc = IF turns[w].is_follow_up THEN "merge" ELSE "respond",
                            ![w].retrieved_chunks = chunks]
       ELSE turns' = [turns EXCEPT ![w].pc = "respond"]
    /\ UNCHANGED <<sessions, clock, messages>>
    /\ UnchangedBySend

\* `retrieved_chunks = session_memory.get_context_for_follow_up(...)`
SendMerge(w) ==
    /\ turns[w].pc = "merge"
    /\ turns' = [turns EXCEPT ![w].pc = "respond",
                    ![w].retrieved_chunks =
                        GetContextForFollowUp(sessions, turns[w].cid,
                                              turns[w].retrieved_chunks)]
    /\ UNCHANGED <<sessions, clock, messages>>
    /\ UnchangedBySend

\* the citations, rag_service.query or ollama_service.generate, and the
\* assistant message; ok = FALSE: the call to the LLM raises and send answers
\* with status 500
SendRespond(w, ok) ==
    /\ turns[w].pc = "respond"
    /\ IF ~ok
       THEN /\ turns' = [turns EXCEPT ![w] = IdleTurn]
            /\ UNCHANGED messages
       ELSE /\ messages' = messages + 1
            /\ IF Len(turns[w].retrieved_chunks) > 0
               THEN \E chunks \in Retrieve(store, turns[w].message,
                                           turns[w].document_ids, 0, embedDim) :
                       turns' = [turns EXCEPT ![w].pc = "update",
                                              ![w].context_chunks = chunks]
               ELSE turns' = [turns EXCEPT ![w] = IdleTurn]
    /\ UNCHANGED <<sessions, clock>>
    /\ UnchangedBySend

\* `session_memory.update_session(conversation.id, message_content,
\* retrieved_chunks, processed.keywords)` and the response
SendUpdate(w) ==
    /\ turns[w].pc = "update"
    /\ sessions' \in UpdateSession(sessions, turns[w].cid, turns[w].message,
                                   turns[w].retrieved_chunks,
                                   Process(turns[w].message).keywords, clock)
    /\ turns' = [turns EXCEPT ![w] = IdleTurn]
    /\ UNCHANGED <<clock, messages>>
    /\ UnchangedBySend

\* time.time() advances
Tick(now) ==
    /\ now > clock
    /\ clock' = now
    /\ UNCHANGED <<sessions, turns, messages>>
    /\ UnchangedBySend

NextTurns ==
    \/ \E w \in Workers, conversation_id \in Convs, message_content \in Texts,
          document_ids \in {{}, {1}} :
          SendBegin(w, conversation_id, message_content, document_ids)
    \/ \E w \in Workers : SendCheck(w)
    \/ \E w \in Workers : SendRetrieve(w)
    \/ \E w \in Workers : SendMerge(w)
    \/ \E w \in Workers, ok \in BOOLEAN : SendRespond(w, ok)
    \/ \E w \in Workers : SendUpdate(w)
    \/ \E now \in Times : Tick(now)

SpecTurns == InitTurns /\ [][NextTurns]_vars

\* C9: while a send request of a conversation that arrived earlier has not
\* finished, no later send request of the same conversation has evaluated
\* its is_follow_up_query check.
C9_TurnsDoNotOverlap ==
    \A w, v \in Workers :
        (/\ turns[w].pc # "idle"
         /\ turns[v].pc # "idle"
         /\ turns[w].cid = turns[v].cid
         /\ turns[w].arrival < turns[v].arrival)
        => turns[v].pc = "check"

(***************************************************************************)
(* Filtered search.                                                        *)
(***************************************************************************)
\* the chunks <<doc, chunk_index>> ingested for the documents of doc_ids whose
\* embedding scores at least min_score against the query q
WantedChunks(q, doc_ids, min_score) ==
    {c \in doc_ids \X (0..(MaxChunks - 1)) :
        /\ documents[c[1]].exists
        /\ documents[c[1]].embedded
        /\ c[2] < documents[c[1]].rows
        /\ Dot(q, EmbedText(c[1], c[2], embedDim), 1) >= min_score}

\* C11: a search with a document filter returns only chunks of the filtered
\* documents and at most k of them; when the store holds at most 3k vectors
\* it returns every ingested chunk of the filtered documents that scores at
\* least min_score (k results when there are more than k such chunks).
C11_FilteredSearchComplete ==
    (last.op = "search" /\ ~last.raised /\ last.doc_ids # {}) =>
        /\ \A i \in 1..Len(results) : results[i].doc_id \in last.doc_ids
        /\ Len(results) <= last.k
        /\ Ntotal(store.index) <= 3 * last.k =>
              LET wanted == WantedChunks(last.q, last.doc_ids, last.min_score)
              IN  IF Cardinality(wanted) > last.k THEN Len(results) = last.k
                  ELSE \A c \in wanted :
                          \E i \in 1..Len(results) :
                             /\ results[i].doc_id = c[1]
                             /\ results[i].text = ChunkText(c[1], c[2])

\* the same statement for stores in which no two slots share a chunk id
C11_HoldsWithoutIdCollision ==
    (\A i, j \in 1..Len(store.id_map) : i # j => store.id_map[i] # store.id_map[j])
        => C11_FilteredSearchComplete

(***************************************************************************)
(* ContextAssembler (backend/rag/context_assembler.py)                     *)
(***************************************************************************)
Digits == <<"0", "1", "2", "3", "4", "5", "6", "7", "8", "9">>

\* str(n) for n >= 0
RECURSIVE IntToStr(_)
IntToStr(n) ==
    IF n < 10 THEN <<Digits[n + 1]>>
    ELSE IntToStr(n \div 10) \o <<Digits[(n % 10) + 1]>>

\* ContextAssembler.DEFAULT_MAX_TOKENS, the value of self.max_tokens when the
\* settings name no other
DEFAULT_MAX_TOKENS == 4000

\* _count_tokens without tiktoken: len(text) // 4
count_tokens(text) == Len(text) \div 4

\* _compute_text_hash: re.sub(r'\s+', ' ', text.lower().strip())[:100]
compute_text_hash(text) ==
    LET normalized == JoinWords(Split(Lower(text)))
    IN  SubSeq(normalized, 1, Min(100, Len(normalized)))

\* _calculate_overlap(text1, text2) >= overlap_threshold (0.7)
OverlapAtLeastThreshold(text1, text2) ==
    LET words1 == SeqToSet(Split(Lower(text1)))
        words2 == SeqToSet(Split(Lower(text2)))
    IN  /\ words1 # {}
        /\ words2 # {}
        /\ 10 * Cardinality(words1 \cap words2) >= 7 * Cardinality(words1 \cup words2)

\* _deduplicate_chunks: the loop from chunk i on; seen_hashes and
\* unique_chunks are the values built so far
RECURSIVE DedupLoop(_, _, _, _)
DedupLoop(chunks, i, seen_hashes, unique_chunks) ==
    IF i > Len(chunks) THEN unique_chunks
    ELSE LET text == chunks[i].text
             text_hash == compute_text_hash(text)
         IN  IF text_hash \in seen_hashes
             THEN DedupLoop(chunks, i + 1, seen_hashes, unique_chunks)
             ELSE IF \E e \in 1..Len(unique_chunks) :
                        OverlapAtLeastThreshold(text, unique_chunks[e].text)
             THEN DedupLoop(chunks, i + 1, seen_hashes, unique_chunks)
             ELSE DedupLoop(chunks, i + 1, seen_hashes \cup {text_hash},
                            Append(unique_chunks, chunks[i]))

deduplicate_chunks(chunks) == DedupLoop(chunks, 1, {}, <<>>)

\* the sort key (doc_id, page_number or 0, chunk_index) of a is less than b's
KeyLess(a, b) ==
    \/ a.doc_id < b.doc_id
    \/ a.doc_id = b.doc_id /\ a.page_number < b.page_number
    \/ a.doc_id = b.doc_id /\ a.page_number = b.page_number
       /\ a.chunk_index < b.chunk_index

\* sorted(chunks, key=...): stable
RECURSIVE sort_chunks(_)
sort_chunks(chunks) ==
    IF Len(chunks) <= 1 THEN chunks
    ELSE LET rest == sort_chunks(SubSeq(chunks, 1, Len(chunks) - 1))
             x == chunks[Len(chunks)]
             \* x goes behind every element whose key is not greater
             pos == Cardinality({j \in 1..Len(rest) : ~KeyLess(x, rest[j])})
         IN  SubSeq(rest, 1, pos) \o <<x>> \o SubSeq(rest, pos + 1, Len(rest))

\* _format_chunk: the header parts joined by " | ", a newline, the text
format_chunk(chunk, index) ==
    LET source == <<"[", "S", "o", "u", "r", "c", "e", " ">> \o IntToStr(index) \o <<"]">>
        from == IF Len(chunk.doc_title) > 0
                THEN <<" ", "|", " ", "F", "r", "o", "m", ":", " ">> \o chunk.doc_title
                ELSE <<>>
        page == IF chunk.page_number # 0
                THEN <<" ", "|", " ", "P", "a", "g", "e", " ">> \o IntToStr(chunk.page_number)
                ELSE <<>>
        section == IF Len(chunk.section_title) > 0
                   THEN <<" ", "|", " ", "S", "e", "c", "t", "i", "o", "n", ":", " ">>
                        \o chunk.section_title
                   ELSE <<>>
    IN  source \o from \o page \o section \o <<"\n">> \o chunk.text

\* _build_citations
build_citations(chunks) ==
    [i \in 1..Len(chunks) |->
        [index |-> i, doc_id |-> chunks[i].doc_id, doc_title |-> chunks[i].doc_title,
         chunk_id |-> chunks[i].chunk_id, page_number |-> chunks[i].page_number,
         section_title |-> chunks[i].section_title,
         preview |-> IF Len(chunks[i].text) > 200
                     THEN SubSeq(chunks[i].text, 1, 200) \o <<".", ".", ".">>
                     ELSE chunks[i].text]]

\* the loop of assemble from chunk i on: parts, used chunks and token count
RECURSIVE AssembleLoop(_, _, _, _, _, _)
AssembleLoop(sorted_chunks, i, max_tokens, context_parts, used_chunks, current_tokens) ==
    IF i > Len(sorted_chunks)
    THEN [parts |-> context_parts, used |-> used_chunks, tokens |-> current_tokens]
    ELSE LET chunk == sorted_chunks[i]
             formatted == format_chunk(chunk, Len(used_chunks) + 1)
             chunk_tokens == count_tokens(formatted)
         IN  IF current_tokens + chunk_tokens > max_tokens
             THEN IF chunk.chunk_type = "table"
                     /\ 10 * (current_tokens + chunk_tokens) < 11 * max_tokens
                  THEN [parts |-> Append(context_parts, formatted),
                        used |-> Append(used_chunks, chunk),
                        tokens |-> current_tokens + chunk_tokens]
                  ELSE [parts |-> context_parts, used |-> used_chunks,
                        tokens |-> current_tokens]
             ELSE AssembleLoop(sorted_chunks, i + 1, max_tokens,
                               Append(context_parts, formatted),
                               Append(used_chunks, chunk), current_tokens + chunk_tokens)

\* "\n\n---\n\n".join(parts)
RECURSIVE JoinParts(_)
JoinParts(parts) ==
    IF Len(parts) = 0 THEN <<>>
    ELSE IF Len(parts) = 1 THEN parts[1]
    ELSE parts[1] \o <<"\n", "\n", "-", "-", "-", "\n", "\n">> \o JoinParts(Tail(parts))

EmptyContext ==
    [context_text |-> <<>>, chunks_used |-> 0, total_tokens |-> 0,
     source_documents |-> {}, citations |-> <<>>]

\* assemble(chunks, max_tokens); `max_tokens or self.max_tokens`
assemble(chunks, max_tokens) ==
    IF Len(chunks) = 0 THEN EmptyContext
    ELSE LET budget == IF max_tokens # 0 THEN max_tokens ELSE DEFAULT_MAX_TOKENS
             done == AssembleLoop(sort_chunks(deduplicate_chunks(chunks)), 1, budget,
                                  <<>>, <<>>, 0)
         IN  [context_text |-> JoinParts(done.parts),
              chunks_used |-> Len(done.used),
              total_tokens |-> done.tokens,
              source_documents |-> {done.used[i].doc_id : i \in
                                       {j \in 1..Len(done.used) : done.used[j].doc_id # 0}},
              citations |-> build_citations(done.used)]

\* assemble_for_follow_up(previous_chunks, new_chunks, max_tokens)
assemble_for_follow_up(previous_chunks, new_chunks, max_tokens) ==
    LET budget == IF max_tokens # 0 THEN max_tokens ELSE DEFAULT_MAX_TOKENS
        new_max == (budget * 7) \div 10
        new_context == assemble(new_chunks, new_max)
        remaining_tokens == budget - new_context.total_tokens
        new_chunk_ids == {new_chunks[i].chunk_id : i \in 1..Len(new_chunks)}
        prev_only == SelectSeq(previous_chunks, LAMBDA c : c.chunk_id \notin new_chunk_ids)
        prev_context == assemble(SubSeq(prev_only, 1, Min(3, Len(prev_only))),
                                 remaining_tokens)
    IN  IF remaining_tokens > 100 /\ Len(previous_chunks) > 0
           /\ Len(prev_context.context_text) > 0
        THEN [context_text |-> new_context.context_text
                  \o <<"\n", "\n", "-", "-", "-", "\n", "[", "P", "r", "e", "v", "i", "o", "u", "s",
                       " ", "C", "o", "n", "t", "e", "x", "t", "]", "\n", "-", "-", "-", "\n", "\n">>
                  \o prev_context.context_text,
              chunks_used |-> new_context.chunks_used + prev_context.chunks_used,
              total_tokens |-> new_context.total_tokens + prev_context.total_tokens,
              source_documents |-> new_context.source_documents
                                   \cup prev_context.source_documents,
              citations |-> new_context.citations \o prev_context.citations]
        ELSE new_context


(***************************************************************************)
(* Direct calls of the assembler: the chunk dictionaries RAGService.query  *)
(* hands over, and the budgets.                                            *)
(***************************************************************************)
MaxNewChunks == 3
MaxPreviousChunks == 2

\* f"Document {doc_id}", the title RAGService.retrieve gives an untitled document
DocumentTitle(doc_id) == <<"D", "o", "c", "u", "m", "e", "n", "t", " ">> \o IntToStr(doc_id)

RetrievedChunk(chunk_id, doc_id, text, chunk_type, page_number, chunk_index) ==
    [chunk_id |-> chunk_id, doc_id |-> doc_id, doc_title |-> DocumentTitle(doc_id),
     text |-> text, chunk_type |-> chunk_type, page_number |-> page_number,
     chunk_index |-> chunk_index, section_title |-> <<>>]

\* a stretch of text as long as the fingerprint
LongPrefix == [i \in 1..100 |-> "a"]

\* two texts that normalize identically, a table, and two long texts that
\* agree on their first 100 characters, one of them close to a short text
AssemblerChunks ==
    {RetrievedChunk(1, 1, <<"S", "a", "m", "e", " ", "c", "o", "n", "t", "e", "n", "t", " ", "h", "e", "r", "e">>, "text", 0, 0),
     RetrievedChunk(2, 1, <<"s", "a", "m", "e", " ", " ", "C", "O", "N", "T", "E", "N", "T", " ", "h", "e", "r", "e", " ">>, "text", 0, 1),
     RetrievedChunk(3, 1, <<"|", " ", "a", " ", "|", " ", "b", " ", "|">>, "table", 2, 2),
     RetrievedChunk(4, 2, <<"b", " ", "c", " ", "d">>, "text", 1, 0),
     RetrievedChunk(5, 2, LongPrefix \o <<" ", "b", " ", "c", " ", "d">>, "text", 1, 1),
     RetrievedChunk(6, 2, LongPrefix \o <<" ", "e", " ", "f", " ", "g">>, "text", 1, 2)}

\* max_tokens arguments; 0 stands for None (the two are alike to `or`)
AssemblerBudgets == {0, 1, 11, 20, 45, 120, 150}

ListsUpTo(S, n) == UNION {[1..m -> S] : m \in 0..n}

\* a process in which one component method is called directly; the methods
\* keep no state between calls, so each behaviour observes one call
InitCalls ==
    /\ embedDim = MaxDim
    /\ store = NewStore(embedDim)
    /\ disk = EmptyDisk
    /\ documents = [d \in Docs |-> NoDocument]
    /\ last = NoOp
    /\ results = <<>>
    /\ writer = Idle
    /\ reader = Idle
    /\ snapshot = [store |-> store, disk |-> disk]
    /\ ChatInit
    /\ call = NoCall

UnchangedByCall ==
    UNCHANGED <<store, disk, embedDim, documents, last, results, threads, chat>>

\* context_assembler.assemble(chunks, max_tokens)
Assemble(chunks, max_tokens) ==
    /\ call = NoCall
    /\ call' = [fn |-> "assemble", previous_chunks |-> <<>>, chunks |-> chunks,
                max_tokens |-> max_tokens, out |-> assemble(chunks, max_tokens)]
    /\ UnchangedByCall

\* context_assembler.assemble_for_follow_up(previous_chunks, new_chunks, max_tokens)
AssembleForFollowUp(previous_chunks, new_chunks, max_tokens) ==
    /\ call = NoCall
    /\ call' = [fn |-> "assemble_for_follow_up", previous_chunks |-> previous_chunks,
                chunks |-> new_chunks, max_tokens |-> max_tokens,
                out |-> assemble_for_follow_up(previous_chunks, new_chunks, max_tokens)]
    /\ UnchangedByCall

\* a previous turn of four chunks that are no duplicates of each other
FourPreviousChunks ==
    LET chunk(chunk_id) == CHOOSE c \in AssemblerChunks : c.chunk_id = chunk_id
    IN  <<chunk(1), chunk(3), chunk(4), chunk(6)>>

NextAssemble ==
    \/ \E chunks \in ListsUpTo(AssemblerChunks, MaxNewChunks),
          max_tokens \in AssemblerBudgets :
          Assemble(chunks, max_tokens)
    \/ \E previous_chunks \in ListsUpTo(AssemblerChunks, MaxPreviousChunks),
          new_chunks \in ListsUpTo(AssemblerChunks, MaxPreviousChunks),
          max_tokens \in AssemblerBudgets :
          AssembleForFollowUp(previous_chunks, new_chunks, max_tokens)
    \/ \E new_chunks \in ListsUpTo(AssemblerChunks, 1), max_tokens \in AssemblerBudgets :
          AssembleForFollowUp(FourPreviousChunks, new_chunks, max_tokens)

SpecAssemble == InitCalls /\ [][NextAssemble]_vars

AssemblerCalled == call.fn \in {"assemble", "assemble_for_follow_up"}

\* the budget a call is held to: its max_tokens, self.max_tokens when None
OverallMaxTokens == IF call.max_tokens # 0 THEN call.max_tokens ELSE DEFAULT_MAX_TOKENS

NoTableChunk ==
    /\ \A i \in 1..Len(call.chunks) : call.chunks[i].chunk_type # "table"
    /\ \A i \in 1..Len(call.previous_chunks) : call.previous_chunks[i].chunk_type # "table"

\* C12: for any list of chunks and any max_tokens, the total_tokens of
\* assemble and of assemble_for_follow_up is at most max_tokens * 1.1, and at
\* most max_tokens when no input chunk is a table.
C12_TotalTokensWithinBudget ==
    AssemblerCalled =>
        /\ 10 * call.out.total_tokens <= 11 * OverallMaxTokens
        /\ NoTableChunk => call.out.total_tokens <= OverallMaxTokens

\* the bound of C12 holds whenever the 70 percent share of the new chunks is
\* not zero
C12_HoldsWithNonZeroShare ==
    (AssemblerCalled /\ (call.fn = "assemble_for_follow_up" => (OverallMaxTokens * 7) \div 10 # 0))
        => C12_TotalTokensWithinBudget

\* a table was taken into the 10 percent slack
C12_TableSlackUsed ==
    /\ AssemblerCalled
    /\ call.out.total_tokens > OverallMaxTokens
    /\ 10 * call.out.total_tokens <= 11 * OverallMaxTokens

\* a follow-up context with chunks of the previous turn
C12_PreviousContextUsed ==
    /\ call.fn = "assemble_for_follow_up"
    /\ call.out.chunks_used > assemble(call.chunks, (OverallMaxTokens * 7) \div 10).chunks_used

\* the input chunk a citation of the returned context stands for
CitedChunk(citation) ==
    call.chunks[CHOOSE p \in 1..Len(call.chunks) :
                    call.chunks[p].chunk_id = citation.chunk_id]

\* the first input chunk with the fingerprint of chunk c
FirstSeen(c) ==
    call.chunks[CHOOSE p \in 1..Len(call.chunks) :
                    /\ compute_text_hash(call.chunks[p].text) = compute_text_hash(c.text)
                    /\ \A r \in 1..(p - 1) :
                          compute_text_hash(call.chunks[r].text) # compute_text_hash(c.text)]

\* the emitted chunks have pairwise different fingerprints
AtMostOneCopy ==
    \A i, j \in 1..Len(call.out.citations) :
        i # j => compute_text_hash(CitedChunk(call.out.citations[i]).text)
                 # compute_text_hash(CitedChunk(call.out.citations[j]).text)

\* n chunks with one fingerprint, the first of which fits the budget
SameFingerprintInput ==
    /\ Len(call.chunks) >= 2
    /\ \A p \in 1..Len(call.chunks) :
          compute_text_hash(call.chunks[p].text) = compute_text_hash(call.chunks[1].text)
    /\ count_tokens(format_chunk(call.chunks[1], 1)) <= OverallMaxTokens

\* C13: assemble emits at most one copy of each chunk text: chunks with the
\* same fingerprint collapse to the first one seen, and n chunks with one
\* fingerprint that fit the budget give chunks_used = 1.
C13_DuplicatesCollapseToFirstSeen ==
    call.fn = "assemble" =>
        /\ AtMostOneCopy
        /\ \A i \in 1..Len(call.out.citations) :
              CitedChunk(call.out.citations[i]).chunk_id
                  = FirstSeen(CitedChunk(call.out.citations[i])).chunk_id
        /\ SameFingerprintInput => call.out.chunks_used = 1

\* the parts of C13 that do not say which copy survives
C13_AtMostOneCopyEmitted ==
    call.fn = "assemble" =>
        /\ AtMostOneCopy
        /\ SameFingerprintInput => call.out.chunks_used = 1

\* three chunks with one fingerprint were assembled into one
C13_ThreeCollapsed ==
    /\ call.fn = "assemble"
    /\ Len(call.chunks) = 3
    /\ SameFingerprintInput
    /\ call.out.chunks_used = 1

(***************************************************************************)
(* Direct calls of the session memory (backend/rag/session_memory.py), as  *)
(* ChatViewSet.send makes them, with time passing between the calls.       *)
(***************************************************************************)
MaxHistory == 1
MaxAsked == 2

\* the readings of the clock around the session timeout
SessionTimes == {0, SESSION_TIMEOUT, SESSION_TIMEOUT + 1}

CanYouExplainItMore == <<"C", "a", "n", " ", "y", "o", "u", " ", "e", "x", "p", "l", "a", "i", "n", " ", "i", "t", " ", "m", "o", "r", "e", "?">>
WhatIsTheWeather == <<"W", "h", "a", "t", " ", "i", "s", " ", "t", "h", "e", " ", "w", "e", "a", "t", "h", "e", "r", "?">>

\* the queries asked of is_follow_up_query
SessionQueries == Texts \cup {CanYouExplainItMore, WhatIsTheWeather}

\* the chunks handed to update_session
SessionChunks ==
    <<[chunk_id |-> 1, doc_id |-> 1, text |-> ChunkText(1, 0), score |-> 1,
       chunk_index |-> 0]>>

\* is_follow_up_query that goes through get_session (sweep and create)
is_follow_up_query_sweeping(ss, conversation_id, query, now) ==
    LET got == GetSession(ss, conversation_id, now)
    IN  [out |-> IsFollowUpQuery(got, conversation_id, query), sessions |-> got]

\* is_follow_up_query as a call: the value returned and the session map the
\* call leaves; it looks the session up with _sessions.get and reads no clock
is_follow_up_query(ss, conversation_id, query, now) ==
    [out |-> IsFollowUpQuery(ss, conversation_id, query), sessions |-> ss]

UnchangedBySession ==
    UNCHANGED <<store, disk, embedDim, documents, last, results, threads, turns, messages>>

\* session_memory.update_session(conversation.id, message_content, chunks, keywords)
UpdateSessionCall(conversation_id, query) ==
    /\ Len(sessions[conversation_id].query_history) < MaxHistory
    /\ sessions' \in UpdateSession(sessions, conversation_id, query, SessionChunks,
                                   Process(query).keywords, clock)
    /\ call' = [fn |-> "update_session", cid |-> conversation_id, query |-> query,
                now |-> clock, before |-> sessions, asked |-> <<>>]
    /\ UNCHANGED clock
    /\ UnchangedBySession

\* session_memory.get_session(conversation_id)
GetSessionCall(conversation_id) ==
    /\ sessions' = GetSession(sessions, conversation_id, clock)
    /\ call' = [fn |-> "get_session", cid |-> conversation_id, query |-> <<>>,
                now |-> clock, before |-> sessions, asked |-> <<>>]
    /\ UNCHANGED clock
    /\ UnchangedBySession

\* session_memory.is_follow_up_query(conversation_id, query); asked lists the
\* answers given since the last call that wrote the session map
IsFollowUpQueryCall(conversation_id, query) ==
    LET answered == is_follow_up_query(sessions, conversation_id, query, clock)
        asked == IF call.fn = "is_follow_up_query" THEN call.asked ELSE <<>>
    IN  /\ Len(asked) < MaxAsked
        /\ sessions' = answered.sessions
        /\ call' = [fn |-> "is_follow_up_query", cid |-> conversation_id,
                    query |-> query, now |-> clock, before |-> sessions,
                    asked |-> Append(asked, [cid |-> conversation_id, query |-> query,
                                             out |-> answered.out])]
        /\ UNCHANGED clock
        /\ UnchangedBySession

\* the chunk lists a retrieval hands to get_context_for_follow_up
NewSessionChunks ==
    {<<>>,
     <<[chunk_id |-> 2, doc_id |-> 2, text |-> ChunkText(2, 0), score |-> 1,
        chunk_index |-> 0]>>}

\* session_memory.get_context_for_follow_up(conversation_id, new_chunks)
GetContextForFollowUpCall(conversation_id, new_chunks) ==
    /\ call' = [fn |-> "get_context_for_follow_up", cid |-> conversation_id,
                query |-> <<>>, now |-> clock, before |-> sessions, asked |-> <<>>,
                new_chunks |-> new_chunks,
                out |-> GetContextForFollowUp(sessions, conversation_id, new_chunks)]
    /\ UNCHANGED <<sessions, clock>>
    /\ UnchangedBySession

NextSession ==
    \/ \E conversation_id \in Convs, query \in Texts :
          UpdateSessionCall(conversation_id, query)
    \/ \E conversation_id \in Convs : GetSessionCall(conversation_id)
    \/ \E conversation_id \in Convs, query \in SessionQueries :
          IsFollowUpQueryCall(conversation_id, query)
    \/ \E conversation_id \in Convs, new_chunks \in NewSessionChunks :
          GetContextForFollowUpCall(conversation_id, new_chunks)
    \/ \E now \in SessionTimes : Tick(now)

SpecSession == InitCalls /\ [][NextSession]_vars

PrimedWithAiModel ==
    /\ call.fn = "is_follow_up_query"
    /\ sessions[call.cid].present
    /\ Len(sessions[call.cid].last_query) > 0
    /\ SeqToSet(sessions[call.cid].topic_keywords) = {<<"a", "i">>, <<"m", "o", "d", "e", "l">>}

\* the value the last is_follow_up_query call returned
Answer == call.asked[Len(call.asked)].out

\* C15: in a session with a prior turn and the topic keywords {ai, model},
\* is_follow_up_query returns true for "Can you explain it more?" and false
\* for "What is the weather?".
C15_ExplainItMoreIsFollowUp ==
    PrimedWithAiModel =>
        /\ call.query = CanYouExplainItMore => Answer
        /\ call.query = WhatIsTheWeather => ~Answer

\* the half of C15 about the unrelated query
C15_WeatherIsNoFollowUp ==
    (PrimedWithAiModel /\ call.query = WhatIsTheWeather) => ~Answer

\* SessionContext(conversation_id=...): the context get_session creates
FreshContext(now) == [NoSession EXCEPT !.present = TRUE, !.last_updated = now]

\* get_session has dropped the contexts last updated `age` seconds ago or
\* earlier, and returns a fresh context if the one asked for was among them
SweptFrom(age) ==
    \A c \in Convs :
        (call.before[c].present /\ call.now - call.before[c].last_updated >= age) =>
            IF c = call.cid THEN sessions[c] = FreshContext(call.now)
            ELSE ~sessions[c].present

\* C17: every get_session call drops every context whose last update is
\* 1800 s or more in the past (boundary included) before the lookup, so
\* get_session on a conversation idle for >= 1800 s returns a fresh empty
\* context.
C17_GetSessionDropsExpired ==
    call.fn = "get_session" => SweptFrom(SESSION_TIMEOUT)

\* the sweep of C17 for contexts idle for more than 1800 s
C17_HoldsPastTheBoundary ==
    call.fn = "get_session" => SweptFrom(SESSION_TIMEOUT + 1)

\* get_session found a context that was idle for more than 1800 s
C17_ExpiredContextAsked ==
    /\ call.fn = "get_session"
    /\ call.before[call.cid].present
    /\ Len(call.before[call.cid].last_query) > 0
    /\ call.now - call.before[call.cid].last_updated > SESSION_TIMEOUT

(***************************************************************************)
(* The topic keywords of one session over a sequence of updates.  A        *)
(* keyword is an opaque string, here a number.                             *)
(***************************************************************************)
MaxKeywordUpdates == 3
MaxKeyword == 32

\* n keywords, from keyword `first` on
Batch(first, n) == [i \in 1..n |-> first + i - 1]

\* the keyword lists passed to update
KeywordBatches == {Batch(1, 20), Batch(21, 11), Batch(MaxKeyword, 1)}

\* session_memory.update_session(1, query, chunks, keywords); stamp[k] is the
\* number of the last update that passed keyword k (0: none did)
UpdateKeywords(keywords) ==
    LET updates == IF call.fn = "update" THEN call.updates ELSE 0
        stamp == IF call.fn = "update" THEN call.stamp ELSE [k \in 1..MaxKeyword |-> 0]
    IN  /\ updates < MaxKeywordUpdates
        /\ sessions' \in UpdateSession(sessions, 1, <<"q">>, SessionChunks, keywords, clock)
        /\ call' = [fn |-> "update", keywords |-> keywords, updates |-> updates + 1,
                    before |-> sessions,
                    stamp |-> [k \in 1..MaxKeyword |->
                                  IF k \in SeqToSet(keywords) THEN updates + 1
                                  ELSE stamp[k]]]
        /\ UNCHANGED clock
        /\ UnchangedBySession

NextKeywords == \E keywords \in KeywordBatches : UpdateKeywords(keywords)

SpecKeywords == InitCalls /\ [][NextKeywords]_vars

\* at most 30 topic keywords, none twice
AtMostThirtyUnique ==
    LET topic == sessions[1].topic_keywords
    IN  /\ Len(topic) <= 30
        /\ \A i, j \in 1..Len(topic) : i # j => topic[i] # topic[j]

\* C16: after any sequence of SessionContext.update calls, topic_keywords
\* holds at most 30 entries, no duplicates, and every keyword of the most
\* recent update (when it passes at most 30 distinct keywords); a dropped
\* keyword is never more recent than a surviving one.
C16_MostRecentKeywordsSurvive ==
    call.fn = "update" =>
        LET kept == SeqToSet(sessions[1].topic_keywords)
            dropped == {k \in 1..MaxKeyword : call.stamp[k] > 0 /\ k \notin kept}
        IN  /\ AtMostThirtyUnique
            /\ Cardinality(SeqToSet(call.keywords)) <= 30 => SeqToSet(call.keywords) \subseteq kept
            /\ \A d \in dropped, k \in kept : call.stamp[d] <= call.stamp[k]

\* the part of C16 about the size of the list
C16_AtMostThirtyUniqueKept == call.fn = "update" => AtMostThirtyUnique

\* an update has dropped keywords
C16_KeywordsDropped ==
    /\ call.fn = "update"
    /\ \E k \in 1..MaxKeyword : call.stamp[k] > 0 /\ k \notin SeqToSet(sessions[1].topic_keywords)

(***************************************************************************)
(* SemanticChunker (backend/rag/chunking_service.py).  Positions inside    *)
(* the operators count from 1; start_char and end_char of a chunk are      *)
(* Python offsets, which count from 0.                                     *)
(***************************************************************************)
IsDigit(c) == \E d \in 1..10 : Digits[d] = c

\* int(digits)
RECURSIVE StrToInt(_)
StrToInt(digits) ==
    IF Len(digits) = 0 THEN 0
    ELSE 10 * StrToInt(SubSeq(digits, 1, Len(digits) - 1))
         + ((CHOOSE d \in 1..10 : Digits[d] = digits[Len(digits)]) - 1)

\* the position of the first newline at or after i, Len(s) + 1 if there is none
LineEnd(s, i) ==
    IF \E j \in i..Len(s) : s[j] = "\n"
    THEN CHOOSE j \in i..Len(s) : s[j] = "\n" /\ \A m \in i..(j - 1) : s[m] # "\n"
    ELSE Len(s) + 1

\* `^` under re.MULTILINE
AtLineStart(s, p) == p = 1 \/ s[p - 1] = "\n"

\* finditer: the matches from position pos on; ends[p] is the last position
\* of the match that starts at p, 0 if none starts there
RECURSIVE FindIter(_, _, _)
FindIter(s, ends, pos) ==
    IF \E p \in pos..Len(s) : ends[p] # 0
    THEN LET p == CHOOSE q \in pos..Len(s) :
                     ends[q] # 0 /\ \A m \in pos..(q - 1) : ends[m] = 0
         IN  <<[start |-> p, end |-> ends[p]]>> \o FindIter(s, ends, ends[p] + 1)
    ELSE <<>>

\* a table row `\|[^\n]+\|\n?` at r: the last position it matches, 0 if none
RowEnd(s, r) ==
    IF r > Len(s) \/ s[r] # "|" THEN 0
    ELSE LET bars == {e \in (r + 2)..(LineEnd(s, r) - 1) : s[e] = "|"}
         IN  IF bars = {} THEN 0
             ELSE LET e == CHOOSE b \in bars : \A c \in bars : c <= b
                  IN  IF e + 1 <= Len(s) /\ s[e + 1] = "\n" THEN e + 1 ELSE e

\* `(?:\|[^\n]+\|\n?)+` at r; the optional separator row is a row as well
RECURSIVE RowsEnd(_, _)
RowsEnd(s, r) ==
    LET e == RowEnd(s, r)
    IN  IF e = 0 THEN 0
        ELSE LET more == RowsEnd(s, e + 1) IN IF more = 0 THEN e ELSE more

\* TABLE_PATTERN at p: a first row that ends its line, then one row or more
TableEnd(s, p) ==
    IF s[p] # "|" THEN 0
    ELSE LET le == LineEnd(s, p)
         IN  IF le > Len(s) \/ le - 1 < p + 2 \/ s[le - 1] # "|" THEN 0
             ELSE RowsEnd(s, le + 1)

\* _extract_tables
extract_tables(text) == FindIter(text, [p \in 1..Len(text) |-> TableEnd(text, p)], 1)

\* TABLE_PATTERN.search(segment) is not None
IsTable(segment) == \E p \in 1..Len(segment) : TableEnd(segment, p) # 0

\* PAGE_PATTERN at p: [end, number] of the match, end = 0 if there is none
PageMatch(s, p) ==
    LET a == SkipSpaces(s, p + 3)
        b == SkipSpaces(s, a + 4)
        digits == {c \in b..Len(s) : \A m \in b..c : IsDigit(s[m])}
        c == b + Cardinality(digits)
        d == SkipSpaces(s, c)
        g == SkipSpaces(s, d + 3)
        stops == {x \in (d + 3)..g : x = Len(s) + 1 \/ s[x] = "\n"}
    IN  IF /\ AtLineStart(s, p)
           /\ MatchAt(<<"-", "-", "-">>, s, p)
           /\ MatchAt(<<"P", "a", "g", "e">>, s, a)
           /\ digits # {}
           /\ MatchAt(<<"-", "-", "-">>, s, d)
           /\ stops # {}
        THEN [end |-> (CHOOSE x \in stops : \A y \in stops : y <= x) - 1,
              number |-> StrToInt(SubSeq(s, b, c - 1))]
        ELSE [end |-> 0, number |-> 0]

\* _extract_page_numbers: (position, page_number), positions counted from 0
extract_page_numbers(text) ==
    LET found == FindIter(text, [p \in 1..Len(text) |-> PageMatch(text, p).end], 1)
    IN  [i \in 1..Len(found) |->
            [pos |-> found[i].start - 1, page |-> PageMatch(text, found[i].start).number]]

\* _get_page_at_position; 0 stands for None
get_page_at_position(position, pages) ==
    LET before == {i \in 1..Len(pages) : \A j \in 1..i : pages[j].pos <= position}
    IN  IF before = {} THEN 0 ELSE pages[Cardinality(before)].page

\* the delimiter `(\n\n+|^#{1,6}\s+[^\n]+\n)` at p: its last position, 0 if none
BoundaryEnd(s, p) ==
    IF s[p] = "\n"
    THEN IF p + 1 <= Len(s) /\ s[p + 1] = "\n"
         THEN CHOOSE q \in (p + 1)..Len(s) :
                 /\ \A m \in p..q : s[m] = "\n"
                 /\ q = Len(s) \/ s[q + 1] # "\n"
         ELSE 0
    ELSE IF s[p] = "#" /\ AtLineStart(s, p)
    THEN LET h == Cardinality({c \in p..Len(s) : \A m \in p..c : s[m] = "#"})
             w == SkipSpaces(s, p + h)
             \* where [^\n]+ can begin after \s+ has taken one blank or more
             begins == {q \in (p + h + 1)..Min(w, Len(s)) :
                           s[q] # "\n" /\ LineEnd(s, q) <= Len(s)}
         IN  IF h > 6 \/ begins = {} THEN 0
             ELSE LineEnd(s, CHOOSE q \in begins : \A r \in begins : r <= q)
    ELSE 0

\* f"<<<TABLE_{i}>>>"
Placeholder(i) ==
    <<"<", "<", "<", "T", "A", "B", "L", "E", "_">> \o IntToStr(i) \o <<">", ">", ">">>

\* the text with table k, and every table after it, replaced by placeholders;
\* the last table gets number 0
RECURSIVE Protect(_, _, _)
Protect(text, tables, k) ==
    IF k > Len(tables) THEN text
    ELSE LET later == Protect(text, tables, k + 1)
         IN  SubSeq(later, 1, tables[k].start - 1) \o Placeholder(Len(tables) - k)
             \o SubSeq(later, tables[k].end + 1, Len(later))

\* str.replace(old, new)
RECURSIVE Replace(_, _, _)
Replace(s, old, new) ==
    IF Contains(old, s) /\ Len(old) > 0
    THEN LET p == CHOOSE q \in 1..Len(s) :
                     MatchAt(old, s, q) /\ \A m \in 1..(q - 1) : ~MatchAt(old, s, m)
         IN  SubSeq(s, 1, p - 1) \o new
             \o Replace(SubSeq(s, p + Len(old), Len(s)), old, new)
    ELSE s

\* the segments the delimiters from delimiter i on give; current_pos counts
\* from 0
RECURSIVE SegmentsFrom(_, _, _, _)
SegmentsFrom(protected_text, delims, i, current_pos) ==
    IF i > Len(delims)
    THEN LET segment == Strip(SubSeq(protected_text, current_pos + 1, Len(protected_text)))
         IN  IF current_pos < Len(protected_text) /\ Len(segment) > 0
             THEN <<segment>> ELSE <<>>
    ELSE LET segment == Strip(SubSeq(protected_text, current_pos + 1, delims[i].start - 1))
             delim == Strip(SubSeq(protected_text, delims[i].start, delims[i].end))
         IN  (IF delims[i].start - 1 > current_pos /\ Len(segment) > 0
              THEN <<segment>> ELSE <<>>)
             \o (IF Len(delim) > 0 /\ delim[1] = "#" THEN <<delim>> ELSE <<>>)
             \o SegmentsFrom(protected_text, delims, i + 1, delims[i].end)

\* the placeholders 0..(n - 1) of a segment replaced by their tables
RECURSIVE Restore(_, _, _, _)
Restore(segment, text, tables, i) ==
    IF i >= Len(tables) THEN segment
    ELSE LET t == tables[Len(tables) - i]
         IN  Restore(Replace(segment, Placeholder(i), SubSeq(text, t.start, t.end)),
                     text, tables, i + 1)

\* _split_at_boundaries
split_at_boundaries(text) ==
    LET tables == extract_tables(text)
        protected_text == Protect(text, tables, 1)
        delims == FindIter(protected_text,
                           [p \in 1..Len(protected_text) |-> BoundaryEnd(protected_text, p)], 1)
        segments == SegmentsFrom(protected_text, delims, 1, 0)
    IN  [i \in 1..Len(segments) |-> Restore(segments[i], text, tables, 0)]

\* "\n\n".join(segments)
RECURSIVE JoinSegments(_)
JoinSegments(segments) ==
    IF Len(segments) = 0 THEN <<>>
    ELSE IF Len(segments) = 1 THEN segments[1]
    ELSE segments[1] \o <<"\n", "\n">> \o JoinSegments(Tail(segments))

\* text.find(sub): the Python offset of the first occurrence, -1 if none
Find(text, sub) ==
    IF Contains(sub, text)
    THEN (CHOOSE q \in 1..(Len(text) + 1) :
             MatchAt(sub, text, q) /\ \A m \in 1..(q - 1) : ~MatchAt(sub, text, m)) - 1
    ELSE -1

\* Chunk(...) for the segments numbered by `members` (the numbers are kept in
\* the record to tell which segments a chunk was made of)
NewChunk(text, segments, pages, members, chunk_index, chunk_type, token_count) ==
    LET chunk_text == JoinSegments([i \in 1..Len(members) |-> segments[members[i]]])
        start_char == Find(text, segments[members[1]])
    IN  [text |-> chunk_text, chunk_index |-> chunk_index, start_char |-> start_char,
         end_char |-> start_char + Len(chunk_text),
         page_number |-> get_page_at_position(start_char, pages),
         chunk_type |-> chunk_type, token_count |-> token_count, members |-> members]

\* the overlap: the last segments of the flushed chunk, as long as they fit
RECURSIVE OverlapSegments(_, _, _, _)
OverlapSegments(segments, members, overlap_tokens, overlap_count) ==
    IF Len(members) = 0 THEN <<>>
    ELSE LET seg_tokens == count_tokens(segments[members[Len(members)]])
         IN  IF overlap_count + seg_tokens <= overlap_tokens
             THEN Append(OverlapSegments(segments, SubSeq(members, 1, Len(members) - 1),
                                         overlap_tokens, overlap_count + seg_tokens),
                         members[Len(members)])
             ELSE <<>>

\* the tokens of the segments numbered by members
RECURSIVE SumTokens(_, _)
SumTokens(segments, members) ==
    IF Len(members) = 0 THEN 0
    ELSE count_tokens(segments[members[1]]) + SumTokens(segments, Tail(members))

\* the loop of chunk_text from segment i on
RECURSIVE ChunkLoop(_, _, _, _, _, _, _, _)
ChunkLoop(text, segments, pages, max_tokens, i, chunks, current, current_tokens) ==
    IF i > Len(segments)
    THEN IF Len(current) > 0
         THEN Append(chunks, NewChunk(text, segments, pages, current, Len(chunks),
                                      "text", current_tokens))
         ELSE chunks
    ELSE LET segment_tokens == count_tokens(segments[i])
             flushed == Append(chunks, NewChunk(text, segments, pages, current,
                                                Len(chunks), "text", current_tokens))
         IN  IF IsTable(segments[i])
             THEN LET before == IF Len(current) > 0 THEN flushed ELSE chunks
                  IN  ChunkLoop(text, segments, pages, max_tokens, i + 1,
                                Append(before, NewChunk(text, segments, pages, <<i>>,
                                                        Len(before), "table",
                                                        segment_tokens)),
                                <<>>, 0)
             ELSE IF current_tokens + segment_tokens > max_tokens /\ Len(current) > 0
             THEN LET overlap_tokens == (current_tokens * 15) \div 100
                      overlap == OverlapSegments(segments, current, overlap_tokens, 0)
                  IN  ChunkLoop(text, segments, pages, max_tokens, i + 1, flushed,
                                Append(overlap, i),
                                SumTokens(segments, overlap) + segment_tokens)
             ELSE ChunkLoop(text, segments, pages, max_tokens, i + 1, chunks,
                            Append(current, i), current_tokens + segment_tokens)

\* chunk_text of a chunker with the given max_tokens (min_tokens is not read)
chunk_text(text, max_tokens) ==
    IF Len(Strip(text)) = 0 THEN <<>>
    ELSE ChunkLoop(text, split_at_boundaries(text), extract_page_numbers(text),
                   max_tokens, 1, <<>>, <<>>, 0)

(***************************************************************************)
(* Direct calls of chunk_text on documents made of a few segments.         *)
(***************************************************************************)
MaxSegments == 3

\* a short paragraph, a paragraph that comes twice, a table, a page marker, a
\* heading, and two long paragraphs (1, 2, 3, 6 and 7 tokens)
DocumentSegments ==
    {<<"I", "n", "t", "r", "o", ".">>,
     <<"S", "a", "m", "e", " ", "w", "o", "r", "d", "s", ".">>,
     <<"|", " ", "a", " ", "|", " ", "b", " ", "|", "\n", "|", " ", "1", " ", "|", " ", "2", " ", "|">>,
     <<"-", "-", "-", " ", "P", "a", "g", "e", " ", "2", " ", "-", "-", "-">>,
     <<"#", " ", "T", "i", "t", "l", "e">>,
     <<"a", "a", "a", "a", " ", "b", "b", "b", "b", " ", "c", "c", "c", "c", " ", "d", "d", "d", "d", " ", "e", "e", "e", "e">>,
     <<"a", "a", "a", "a", " ", "b", "b", "b", "b", " ", "c", "c", "c", "c", " ", "d", "d", "d", "d", " ", "e", "e", "e", "e", " ", "f", "f", "f", "f">>}

\* the documents: segments separated by blank lines
Documents == {JoinSegments(segments) : segments \in ListsUpTo(DocumentSegments, MaxSegments)}

\* (min_tokens, max_tokens) of the chunker
ChunkerLimits == {<<1, 3>>, <<2, 7>>, <<3, 10>>}

\* SemanticChunker(min_tokens, max_tokens).chunk_text(text)
ChunkTextCall(text, min_tokens, max_tokens) ==
    /\ call = NoCall
    /\ call' = [fn |-> "chunk_text", text |-> text, min_tokens |-> min_tokens,
                max_tokens |-> max_tokens, out |-> chunk_text(text, max_tokens)]
    /\ UnchangedByCall

NextChunk ==
    \E text \in Documents, limits \in ChunkerLimits : ChunkTextCall(text, limits[1], limits[2])

SpecChunk == InitCalls /\ [][NextChunk]_vars

\* the segments of the document of the call
CallSegments == split_at_boundaries(call.text)

\* C18: every chunk of chunk_text that is not a table chunk has token_count
\* within [min_tokens, max_tokens], except a chunk made of a single segment
\* that alone exceeds max_tokens.
C18_TokenCountWithinLimits ==
    call.fn = "chunk_text" =>
        \A i \in 1..Len(call.out) :
            LET chunk == call.out[i]
            IN  chunk.chunk_type # "table" =>
                    \/ /\ call.min_tokens <= chunk.token_count
                       /\ chunk.token_count <= call.max_tokens
                    \/ /\ Len(chunk.members) = 1
                       /\ count_tokens(CallSegments[chunk.members[1]]) > call.max_tokens

\* a chunk that is not seeded with an overlap stays within max_tokens unless
\* it is a single oversized segment
C18_UnseededChunksWithinMax ==
    call.fn = "chunk_text" =>
        \A i \in 1..Len(call.out) :
            LET chunk == call.out[i]
            IN  (/\ chunk.chunk_type # "table"
                 /\ \A j \in 1..(i - 1) :
                       \A m \in 1..Len(call.out[j].members) :
                           call.out[j].members[m] # chunk.members[1])
                    => \/ chunk.token_count <= call.max_tokens
                       \/ Len(chunk.members) = 1

\* the tables of the document of the call
CallTables ==
    LET tables == extract_tables(call.text)
    IN  [t \in 1..Len(tables) |-> Strip(SubSeq(call.text, tables[t].start, tables[t].end))]

\* C19: every markdown table of the input is emitted as exactly one chunk of
\* chunk_type 'table' that holds the complete table and nothing else, also
\* when a blank line and a paragraph follow the table.
C19_TableIsOneChunkOfItsOwn ==
    call.fn = "chunk_text" =>
        \A t \in 1..Len(CallTables) :
            Cardinality({i \in 1..Len(call.out) :
                            /\ call.out[i].chunk_type = "table"
                            /\ Strip(call.out[i].text) = CallTables[t]})
                = Cardinality({u \in 1..Len(CallTables) : CallTables[u] = CallTables[t]})

\* every table is whole inside some table chunk
C19_TableNeverSplit ==
    call.fn = "chunk_text" =>
        \A t \in 1..Len(CallTables) :
            \E i \in 1..Len(call.out) :
                /\ call.out[i].chunk_type = "table"
                /\ Contains(CallTables[t], call.out[i].text)

\* a table that ends the document is a chunk of its own
C19_LastTableAlone ==
    /\ call.fn = "chunk_text"
    /\ Len(call.out) >= 2
    /\ Len(CallTables) = 1
    /\ call.out[Len(call.out)].chunk_type = "table"
    /\ Strip(call.out[Len(call.out)].text) = CallTables[1]

\* text.find(sub, start): the Python offset of the first occurrence at or
\* after offset start
FindFrom(text, sub, start) ==
    (CHOOSE q \in (start + 1)..(Len(text) + 1) :
        MatchAt(sub, text, q) /\ \A m \in (start + 1)..(q - 1) : ~MatchAt(sub, text, m)) - 1

\* the offset at which segment k of the document occurs: the segments follow
\* each other in the text
RECURSIVE SegmentStart(_, _, _)
SegmentStart(text, segments, k) ==
    IF k = 1 THEN FindFrom(text, segments[1], 0)
    ELSE FindFrom(text, segments[k],
                  SegmentStart(text, segments, k - 1) + Len(segments[k - 1]))

\* C20: for every emitted chunk, start_char is the position where the chunk's
\* first segment occurs in the text and page_number is the N of the last
\* `--- Page N ---` marker at or before it, also when the text of the segment
\* occurs earlier in the document.
C20_StartAndPageOfFirstSegment ==
    call.fn = "chunk_text" =>
        \A i \in 1..Len(call.out) :
            LET start == SegmentStart(call.text, CallSegments, call.out[i].members[1])
            IN  /\ call.out[i].start_char = start
                /\ call.out[i].page_number
                      = get_page_at_position(start, extract_page_numbers(call.text))

\* C20 for the chunks whose first segment occurs nowhere earlier in the text
C20_HoldsForFirstOccurrences ==
    call.fn = "chunk_text" =>
        \A i \in 1..Len(call.out) :
            LET start == SegmentStart(call.text, CallSegments, call.out[i].members[1])
            IN  Find(call.text, CallSegments[call.out[i].members[1]]) = start =>
                    /\ call.out[i].start_char = start
                    /\ call.out[i].page_number
                          = get_page_at_position(start, extract_page_numbers(call.text))

\* a chunk behind a page marker got the page of the marker
C20_PageFound ==
    /\ call.fn = "chunk_text"
    /\ \E i \in 1..Len(call.out) : call.out[i].page_number = 2 /\ call.out[i].start_char > 0

(***************************************************************************)
(* Direct calls of QueryProcessor.process.                                 *)
(***************************************************************************)
MaxPadding == 18

\* one query per intent: SUMMARY (the query of test_intent_detection),
\* EXPLAIN, COMPARE, FIND, LIST and QUESTION, of 3 to 5 words
IntentQueries ==
    {<<"S", "u", "m", "m", "a", "r", "i", "z", "e", " ", "t", "h", "e", " ", "m", "a", "i", "n", " ", "p", "o", "i", "n", "t", "s">>,
     <<"W", "h", "a", "t", " ", "i", "s", " ", "m", "a", "c", "h", "i", "n", "e", " ", "l", "e", "a", "r", "n", "i", "n", "g", "?">>,
     <<"C", "o", "m", "p", "a", "r", "e", " ", "C", "N", "N", " ", "a", "n", "d", " ", "V", "i", "T", " ", "m", "o", "d", "e", "l", "s">>,
     <<"F", "i", "n", "d", " ", "t", "h", "e", " ", "r", "e", "s", "u", "l", "t", "s">>,
     <<"L", "i", "s", "t", " ", "t", "h", "e", " ", "m", "o", "d", "e", "l", "s">>,
     <<"W", "h", "o", " ", "w", "r", "o", "t", "e", " ", "t", "h", "i", "s">>}

\* the query followed by n more words
RECURSIVE Padded(_, _)
Padded(query, n) ==
    IF n = 0 THEN query ELSE Padded(query, n - 1) \o <<" ", "x">>

\* raw queries with filler prefixes and irregular white space (the first is
\* the query of test_query_cleaning)
RawQueries ==
    {<<" ", " ", "H", "e", "y", ",", " ", "c", "a", "n", " ", "y", "o", "u", " ", "t", "e", "l", "l", " ", "m", "e", " ", "a", "b", "o", "u", "t", " ", "A", "I", "?", " ", " ">>,
     <<"H", "e", "y", ",", " ", "c", "a", "n", " ", "y", "o", "u", " ", "t", "e", "l", "l", " ", "m", "e", " ", "a", "b", "o", "u", "t", " ", "A", "I", "?">>,
     <<"P", "l", "e", "a", "s", "e", " ", " ", "s", "u", "m", "m", "a", "r", "i", "z", "e", "\t", "t", "h", "e", " ", "m", "a", "i", "n", " ", "p", "o", "i", "n", "t", "s">>,
     <<"h", "e", "l", "l", "o">>,
     <<"T", "e", "l", "l", " ", "m", "e", " ", "m", "o", "r", "e">>,
     <<"I", " ", "w", "a", "n", "t", " ", "t", "o", " ", "f", "i", "n", "d", " ", "t", "h", "e", " ", "r", "e", "s", "u", "l", "t", "s">>,
     <<"C", "o", "u", "l", "d", " ", "y", "o", "u", " ", ",", " ", "s", "h", "o", "w", " ", "m", "e", " ", "t", "h", "e", " ", "d", "a", "t", "a">>,
     <<"c", "a", "n", " ", "y", "o", "u", " ", "t", "e", "l", "l", " ", "m", "e", " ", "a", "b", "o", "u", "t", " ", "A", "I", "?">>}

ProcessorQueries ==
    {Padded(query, n) : query \in IntentQueries, n \in 0..MaxPadding} \cup RawQueries

\* query_processor.process(query, embed=False)
ProcessCall(query) ==
    /\ call = NoCall
    /\ call' = [fn |-> "process", query |-> query, out |-> Process(query)]
    /\ UnchangedByCall

NextProcess == \E query \in ProcessorQueries : ProcessCall(query)

SpecProcess == InitCalls /\ [][NextProcess]_vars

\* the number of white space separated words of a text
WordCount(s) ==
    Cardinality({i \in 1..Len(s) : ~IsSpace(s[i]) /\ (i = 1 \/ IsSpace(s[i - 1]))})

\* the K the claim gives to an intent and a word count
ClaimedK(intent, word_count) ==
    LET K == CASE intent = "SUMMARY" -> 10
               [] intent = "EXPLAIN" -> 5
               [] intent = "COMPARE" -> 8
               [] intent = "FIND" -> 3
               [] intent = "LIST" -> 10
               [] intent = "QUESTION" -> 5
    IN  IF word_count > 20 THEN (IF K + 3 < 15 THEN K + 3 ELSE 15)
        ELSE IF word_count < 5 THEN (IF K - 2 > 3 THEN K - 2 ELSE 3)
        ELSE K

SummarizeTheMainPoints == <<"S", "u", "m", "m", "a", "r", "i", "z", "e", " ", "t", "h", "e", " ", "m", "a", "i", "n", " ", "p", "o", "i", "n", "t", "s">>

\* C21: suggested_k is the base K of the intent, raised to min(K+3, 15) for
\* more than 20 words of the cleaned query and lowered to max(K-2, 3) for
\* fewer than 5; it lies in 3..15 and a query that starts with "Summarize
\* the main points" gets 8, 10 or 13.
C21_SuggestedKFollowsIntentAndLength ==
    call.fn = "process" =>
        /\ call.out.suggested_k
              = ClaimedK(call.out.intent, WordCount(call.out.cleaned_query))
        /\ call.out.suggested_k \in 3..15
        /\ MatchAt(SummarizeTheMainPoints, call.query, 1)
              => call.out.intent = "SUMMARY" /\ call.out.suggested_k \in {8, 10, 13}

\* every intent has been seen with fewer than 5, with 5 to 20 and with more
\* than 20 words: here a COMPARE query of exactly 21 words
C21_CompareTwentyOneWords ==
    /\ call.fn = "process"
    /\ call.out.intent = "COMPARE"
    /\ WordCount(call.out.cleaned_query) = 21
    /\ call.out.suggested_k = 11

\* the text starts with one of the listed filler phrases as whole words
StartsWithFiller(s) ==
    \E alternatives \in {filler_patterns_1, filler_patterns_2} :
        \E j \in 1..Len(alternatives) :
            /\ MatchAt(alternatives[j], Lower(s), 1)
            /\ Len(s) = Len(alternatives[j]) \/ ~IsLetter(s[Len(alternatives[j]) + 1])

\* no two white space characters follow each other
NoWhitespaceRun(s) == \A i \in 1..(Len(s) - 1) : ~(IsSpace(s[i]) /\ IsSpace(s[i + 1]))

\* C24: the cleaned query has no run of two or more white space characters
\* and no leading filler prefix left, also when several fillers are stacked
\* as in "Hey, can you tell me about AI?", and cleaning the cleaned query
\* changes nothing.
C24_CleanQueryLeavesNoFiller ==
    call.fn = "process" =>
        /\ NoWhitespaceRun(call.out.cleaned_query)
        /\ ~StartsWithFiller(call.out.cleaned_query)
        /\ clean_query(call.out.cleaned_query) = call.out.cleaned_query

\* the white space part of C24: single blanks only and none at the ends
C24_WhitespaceCollapsed ==
    call.fn = "process" =>
        /\ NoWhitespaceRun(call.out.cleaned_query)
        /\ Strip(call.out.cleaned_query) = call.out.cleaned_query
        /\ \A i \in 1..Len(call.out.cleaned_query) :
              call.out.cleaned_query[i] \notin {"\n", "\t"}

\* when no filler is left in front of the cleaned query, cleaning it again
\* changes nothing
C24_HoldsForOneFillerPerPattern ==
    (/\ call.fn = "process"
     /\ ~StartsWithFiller(call.out.cleaned_query)) =>
        clean_query(call.out.cleaned_query) = call.out.cleaned_query

\* a filler was removed and none is left
C24_FillerRemoved ==
    /\ call.fn = "process"
    /\ StartsWithFiller(call.query)
    /\ ~StartsWithFiller(call.out.cleaned_query)
    /\ Len(call.out.cleaned_query) > 0

(***************************************************************************)
(* ChatViewSet.stream (backend/chat/views.py): the generator of the        *)
(* server-sent events, one action per step between two yields.  The run    *)
(* is kept in `call`: its position and the frames it has emitted.          *)
(***************************************************************************)
MaxDeltas == 3

\* the pieces of text the LLM streams
Deltas == {<<"a">>, <<"b">>}

\* the answer of RAGService.query when retrieval finds nothing: a str, which
\* the loop of stream iterates character by character
NoInformationAnswer ==
    <<"I", " ", "c", "o", "u", "l", "d", "n", "'", "t", " ", "f", "i", "n", "d", " ", "r", "e", "l", "e", "v", "a", "n", "t", " ", "i", "n", "f", "o", "r", "m", "a", "t", "i", "o", "n", " ", "i", "n", " ", "t", "h", "e", " ", "p", "r", "o", "v", "i", "d", "e", "d", " ", "d", "o", "c", "u", "m", "e", "n", "t", "s", " ", "t", "o", " ", "a", "n", "s", "w", "e", "r", " ", "y", "o", "u", "r", " ", "q", "u", "e", "s", "t", "i", "o", "n", ".">>

\* the store of the streaming scenario: document 1 is ingested, document 2
\* has no chunks
InitStream ==
    /\ embedDim = MaxDim
    /\ store = StoreWith(NewStore(embedDim), 1, 2, embedDim)
    /\ disk = Save(store, EmptyDisk)
    /\ documents = [d \in Docs |-> NoDocument]
    /\ last = NoOp
    /\ results = <<>>
    /\ writer = Idle
    /\ reader = Idle
    /\ snapshot = [store |-> store, disk |-> disk]
    /\ ChatInit
    /\ call = NoCall

Frame(kind, data) == [kind |-> kind, data |-> data]

\* the citations of the first frame: one per chunk of retrieved_chunks[:5]
StreamCitations(retrieved_chunks) ==
    [i \in 1..Min(Len(retrieved_chunks), 5) |->
        [document_id |-> retrieved_chunks[i].doc_id,
         chunk_text |-> retrieved_chunks[i].text,
         score |-> retrieved_chunks[i].score,
         citation_index |-> i]]

\* the request arrives and the generator starts
StreamBegin(message_content, document_ids) ==
    /\ call = NoCall
    /\ call' = [fn |-> "stream", pc |-> IF document_ids # {} THEN "retrieve" ELSE "generate",
                message |-> message_content, document_ids |-> document_ids,
                frames |-> <<>>, pending |-> <<>>]
    /\ UnchangedByCall

\* an exception anywhere in the generator: the error frame
StreamError == [call EXCEPT !.pc = "closed", !.frames = Append(@, Frame("error", <<>>))]

\* `rag_service.retrieve(...)` and the citations frame; ok = FALSE: the
\* retrieval raises
StreamRetrieve(ok) ==
    /\ call.fn = "stream"
    /\ call.pc = "retrieve"
    /\ IF ok
       THEN \E chunks \in Retrieve(store, call.message, call.document_ids, 0, embedDim) :
               call' = [call EXCEPT !.pc = "query",
                           !.frames = Append(@, Frame("citations", StreamCitations(chunks)))]
       ELSE call' = StreamError
    /\ UnchangedByCall

\* `rag_service.query(..., stream=True)`: without chunks the answer is the
\* str, with chunks the generator of the LLM; ok = FALSE: the call raises
StreamQuery(ok) ==
    /\ call.fn = "stream"
    /\ call.pc = "query"
    /\ IF ok
       THEN \E chunks \in Retrieve(store, call.message, call.document_ids, 0, embedDim) :
               call' = IF Len(chunks) = 0
                       THEN [call EXCEPT !.pc = "answer", !.pending = NoInformationAnswer]
                       ELSE [call EXCEPT !.pc = "content"]
       ELSE call' = StreamError
    /\ UnchangedByCall

\* no documents: `ollama_service.generate(prompt, stream=True)`
StreamGenerate(ok) ==
    /\ call.fn = "stream"
    /\ call.pc = "generate"
    /\ call' = IF ok THEN [call EXCEPT !.pc = "content"] ELSE StreamError
    /\ UnchangedByCall

\* the generator of the LLM yields a piece of text: a content frame
StreamContent(delta) ==
    /\ call.fn = "stream"
    /\ call.pc = "content"
    /\ Cardinality({i \in 1..Len(call.frames) : call.frames[i].kind = "content"}) < MaxDeltas
    /\ call' = [call EXCEPT !.frames = Append(@, Frame("content", delta))]
    /\ UnchangedByCall

\* reading the response of the LLM raises inside the loop
StreamContentFails ==
    /\ call.fn = "stream"
    /\ call.pc = "content"
    /\ call' = StreamError
    /\ UnchangedByCall

\* the loop over the str answer: one content frame per character
StreamAnswerCharacter ==
    /\ call.fn = "stream"
    /\ call.pc = "answer"
    /\ Len(call.pending) > 0
    /\ call' = [call EXCEPT !.frames = Append(@, Frame("content", <<Head(call.pending)>>)),
                            !.pending = Tail(@)]
    /\ UnchangedByCall

\* the loop is over: the done frame
StreamDone ==
    /\ call.fn = "stream"
    /\ \/ call.pc = "content"
       \/ call.pc = "answer" /\ Len(call.pending) = 0
    /\ call' = [call EXCEPT !.pc = "closed", !.frames = Append(@, Frame("done", <<>>))]
    /\ UnchangedByCall

NextStream ==
    \/ \E message_content \in Texts, document_ids \in {{}, {1}, {2}} :
          StreamBegin(message_content, document_ids)
    \/ \E ok \in BOOLEAN : StreamRetrieve(ok)
    \/ \E ok \in BOOLEAN : StreamQuery(ok)
    \/ \E ok \in BOOLEAN : StreamGenerate(ok)
    \/ \E delta \in Deltas : StreamContent(delta)
    \/ StreamContentFails
    \/ StreamAnswerCharacter
    \/ StreamDone

SpecStream == InitStream /\ [][NextStream]_vars

IsTerminal(frame) == frame.kind \in {"done", "error"}

\* C22: the frames of a run of stream are a citations frame, then content
\* frames, then exactly one terminal frame (done or error); nothing follows
\* the terminal frame and no done frame follows an error frame.
C22_FramesWellFormed ==
    call.fn = "stream" =>
        /\ \A i \in 1..Len(call.frames) :
              /\ i = 1 => call.frames[i].kind = "citations"
              /\ (i > 1 /\ i < Len(call.frames)) => call.frames[i].kind = "content"
              /\ IsTerminal(call.frames[i]) => i = Len(call.frames)
        /\ call.pc = "closed" =>
              /\ Len(call.frames) >= 2
              /\ IsTerminal(call.frames[Len(call.frames)])

\* the terminal part of C22: a closed run ends with its only terminal frame,
\* an open run has none, and a citations frame is never behind another frame
C22_OneTerminalFrameLast ==
    call.fn = "stream" =>
        /\ \A i \in 1..Len(call.frames) :
              /\ IsTerminal(call.frames[i]) => i = Len(call.frames)
              /\ call.frames[i].kind = "citations" => i = 1
        /\ call.pc = "closed" <=>
              (Len(call.frames) >= 1 /\ IsTerminal(call.frames[Len(call.frames)]))

\* C22 for the runs with documents whose retrieval does not raise
C22_HoldsWithDocuments ==
    (/\ call.fn = "stream"
     /\ call.document_ids # {}
     /\ call.pc \notin {"retrieve"}
     /\ call.frames[1].kind # "error") =>
        /\ call.frames[1].kind = "citations"
        /\ \A i \in 2..Len(call.frames) :
              \/ call.frames[i].kind = "content"
              \/ i = Len(call.frames) /\ IsTerminal(call.frames[i])

\* a complete run with documents: citations, two content frames, done
C22_CompleteRun ==
    /\ call.fn = "stream"
    /\ call.pc = "closed"
    /\ Len(call.frames) = 4
    /\ call.frames[1].kind = "citations"
    /\ Len(call.frames[1].data) > 0
    /\ call.frames[4].kind = "done"

(***************************************************************************)
(* Citations of the assembled context.                                     *)
(***************************************************************************)
\* the input chunk, new or previous, a citation of the returned context
\* stands for
CitedInput(citation) ==
    LET given == call.chunks \o call.previous_chunks
    IN  given[CHOOSE p \in 1..Len(given) : given[p].chunk_id = citation.chunk_id]

\* how often the header `[Source N]` stands in the text
SourceHeaders(text, N) ==
    LET header == <<"[", "S", "o", "u", "r", "c", "e", " ">> \o IntToStr(N) \o <<"]">>
    IN  Cardinality({p \in 1..Len(text) : MatchAt(header, text, p)})

CitationsMatchContext ==
    /\ Len(call.out.citations) = call.out.chunks_used
    /\ \A i \in 1..Len(call.out.citations) : call.out.citations[i].index = i
    /\ \A i \in 1..Len(call.out.citations) :
          LET citation == call.out.citations[i]
          IN  /\ SourceHeaders(call.out.context_text, citation.index) = 1
              /\ Contains(format_chunk(CitedInput(citation), citation.index),
                          call.out.context_text)

\* C23: the result of assemble and of assemble_for_follow_up has one citation
\* per included chunk, the citation indices are 1..chunks_used without
\* repetition, and the citation with index N describes the chunk printed
\* under the `[Source N]` header of context_text.
C23_CitationsNumberTheSources ==
    AssemblerCalled => CitationsMatchContext

\* C23 for assemble, and for assemble_for_follow_up when no previous context
\* is appended
C23_HoldsWithoutPreviousContext ==
    (/\ AssemblerCalled
     /\ call.fn = "assemble_for_follow_up" =>
           call.out = assemble(call.chunks, (OverallMaxTokens * 7) \div 10))
        => CitationsMatchContext

\* a context of two sources with their two citations
C23_TwoSourcesCited ==
    /\ call.fn = "assemble"
    /\ call.out.chunks_used = 2
    /\ CitationsMatchContext

(***************************************************************************)
(* The turns of one worker: send requests handled one after the other.     *)
(***************************************************************************)
NextFollowUp ==
    \/ \E conversation_id \in Convs, message_content \in Texts,
          document_ids \in {{}, {1}, {2}, {1, 2}} :
          SendBegin(1, conversation_id, message_content, document_ids)
    \/ SendCheck(1)
    \/ SendRetrieve(1)
    \/ SendMerge(1)
    \/ \E ok \in BOOLEAN : SendRespond(1, ok)
    \/ SendUpdate(1)
    \/ \E now \in Times : Tick(now)

SpecFollowUp == InitTurns /\ [][NextFollowUp]_vars

\* the turn of worker w is a follow-up that is about to update the session
FollowUpTurnEnds(w) ==
    /\ turns[w].pc = "update"
    /\ turns[w].is_follow_up
    /\ turns'[w].pc = "idle"

\* C25: on a follow-up turn the chunk list assembled into the context for the
\* LLM is the merge of the newly retrieved chunks with those of the previous
\* turn, and update_session stores the newly retrieved chunks of the turn.
C25_FollowUpContextIsTheMerge ==
    [][\A w \in Workers :
          FollowUpTurnEnds(w) =>
              /\ turns[w].context_chunks = turns[w].retrieved_chunks
              /\ sessions'[turns[w].cid].last_chunks
                    \in Retrieve(store, turns[w].message, turns[w].document_ids, 10,
                                 embedDim)]_vars

\* what the code does on a follow-up turn: the context is assembled by
\* rag_service.query from a retrieval of its own, and the merged list is what
\* update_session stores
C25_MergeStoredNotAssembled ==
    [][\A w \in Workers :
          FollowUpTurnEnds(w) =>
              /\ turns[w].context_chunks
                    \in Retrieve(store, turns[w].message, turns[w].document_ids, 0,
                                 embedDim)
              /\ sessions'[turns[w].cid].last_chunks = turns[w].retrieved_chunks]_vars

\* a follow-up turn whose merge added chunks of the previous turn
C25_PreviousChunksMerged ==
    \E w \in Workers :
        /\ turns[w].pc = "update"
        /\ turns[w].is_follow_up
        /\ \E i \in 1..Len(turns[w].retrieved_chunks) :
              turns[w].retrieved_chunks[i].doc_id \notin turns[w].document_ids

(***************************************************************************)
(* The budget split of assemble_for_follow_up.                             *)
(***************************************************************************)
\* the part of a follow-up context that comes from the new chunks
NewPart == assemble(call.chunks, (OverallMaxTokens * 7) \div 10)

\* the citations of the chunks under the `[Previous Context]` delimiter
PreviousCitations(new_part) ==
    SubSeq(call.out.citations, new_part.chunks_used + 1, Len(call.out.citations))

PreviousFiltered(previous_citations) ==
    /\ Len(previous_citations) <= 3
    /\ \A i \in 1..Len(previous_citations) :
          /\ \A p \in 1..Len(call.chunks) :
                call.chunks[p].chunk_id # previous_citations[i].chunk_id
          /\ \E p \in 1..Len(call.previous_chunks) :
                call.previous_chunks[p].chunk_id = previous_citations[i].chunk_id

\* C26: in assemble_for_follow_up the new chunks use at most 70 percent of
\* max_tokens and the previous chunks under `[Previous Context]` at most 30
\* percent (each up to the 10 percent table slack); at most three previous
\* chunks are appended and none of them has a chunk_id of the new set.
C26_BudgetSplitSeventyThirty ==
    call.fn = "assemble_for_follow_up" =>
        LET new_part == NewPart
            previous_citations == PreviousCitations(new_part)
        IN  /\ 100 * new_part.total_tokens <= 77 * OverallMaxTokens
            /\ 100 * (call.out.total_tokens - new_part.total_tokens)
                  <= 33 * OverallMaxTokens
            /\ PreviousFiltered(previous_citations)

\* what holds of the split: the previous chunks get what the new ones left of
\* max_tokens (up to the table slack), and they are at most three chunks
\* that are not in the new set
C26_PreviousGetTheRemainder ==
    call.fn = "assemble_for_follow_up" =>
        LET new_part == NewPart
            previous_citations == PreviousCitations(new_part)
        IN  /\ 10 * (call.out.total_tokens - new_part.total_tokens)
                  <= 11 * Max(OverallMaxTokens - new_part.total_tokens, 0)
            /\ PreviousFiltered(previous_citations)

\* three of four previous chunks were appended
C26_ThreePreviousAppended ==
    /\ call.fn = "assemble_for_follow_up"
    /\ Len(call.previous_chunks) = 4
    /\ Len(call.chunks) = 0
    /\ call.out.chunks_used = 3

\* the previous chunks took more than 30 percent of max_tokens plus slack
\* although the share of the new chunks was not zero
C26_PreviousOverThirtyPercent ==
    /\ call.fn = "assemble_for_follow_up"
    /\ (OverallMaxTokens * 7) \div 10 # 0
    /\ 100 * (call.out.total_tokens - NewPart.total_tokens) > 33 * OverallMaxTokens

(***************************************************************************)
(* The citations send returns and the context rag_service.query assembles. *)
(***************************************************************************)
\* the dict RAGService.retrieve builds of a search result: the title of a
\* document without a row, the stored text as a string
EnrichedChunk(chunk) ==
    RetrievedChunk(chunk.chunk_id, chunk.doc_id, IntToStr(chunk.text), "text", 0,
                   chunk.chunk_index)

\* `self.context_assembler.assemble(chunks)` in rag_service.query
QueryContext(w) ==
    assemble([i \in 1..Len(turns[w].context_chunks) |->
                 EnrichedChunk(turns[w].context_chunks[i])], 0)

\* the turn of worker w used documents and has its citations and its answer
TurnAnswered(w) ==
    /\ turns[w].pc = "update"
    /\ turns[w].document_ids # {}

\* the citation send numbers i is the chunk under `[Source i]` of context
CitationIsSource(w, context, i) ==
    /\ i <= Len(context.citations)
    /\ context.citations[i].chunk_id = turns[w].retrieved_chunks[i].chunk_id
    /\ Contains(format_chunk(EnrichedChunk(turns[w].retrieved_chunks[i]), i),
                context.context_text)

\* C27: in a send turn that uses documents the returned citation with
\* citation_index N refers to the chunk of the `[Source N]` block of the
\* context given to the LLM, and no returned citation refers to a chunk that
\* is absent from that context.
C27_CitationsAreThoseOfTheContext ==
    \A w \in Workers :
        TurnAnswered(w) =>
            LET context == QueryContext(w)
            IN  \A i \in 1..Len(turns[w].retrieved_chunks) :
                    CitationIsSource(w, context, i)

\* what holds of a turn that is not a follow-up: the cited chunks are the
\* chunks of the context, whatever their numbers
C27_FirstTurnCitesContextChunks ==
    \A w \in Workers :
        (TurnAnswered(w) /\ ~turns[w].is_follow_up) =>
            LET context == QueryContext(w)
            IN  {turns[w].retrieved_chunks[i].chunk_id :
                    i \in 1..Len(turns[w].retrieved_chunks)}
                = {context.citations[i].chunk_id : i \in 1..Len(context.citations)}

\* a turn that is not a follow-up in which the first citation is not the
\* chunk of `[Source 1]`: the citations are in the order of the scores, the
\* sources in the order of the documents
C27_CitationNumberNotSourceNumber ==
    \E w \in Workers :
        /\ TurnAnswered(w)
        /\ ~turns[w].is_follow_up
        /\ LET context == QueryContext(w)
           IN  /\ Len(context.citations) = Len(turns[w].retrieved_chunks)
               /\ context.citations[1].chunk_id # turns[w].retrieved_chunks[1].chunk_id

\* a citation was returned for a chunk that is not in the context
C27_CitedChunkAbsentFromContext ==
    \E w \in Workers :
        /\ TurnAnswered(w)
        /\ \E i \in 1..Len(turns[w].retrieved_chunks) :
              \A j \in 1..Len(turns[w].context_chunks) :
                  turns[w].context_chunks[j].chunk_id
                      # turns[w].retrieved_chunks[i].chunk_id

(***************************************************************************)
(* Removal of a document and the restart that follows it.                  *)
(***************************************************************************)
\* the step is a restart that directly follows remove_document(doc)
RestartAfterRemoval ==
    /\ last.op = "destroy"
    /\ last'.op = "restart"

\* C28: after remove_document(d) and a restart of the process that loads the
\* store from the persist directory, the store holds no chunk of document d,
\* also when d was the only document in the store.
C28_DeletionIsDurable ==
    [][RestartAfterRemoval => GetDocChunkCount(store', last.doc) = 0]_vars

\* C28 when the removal left chunks of other documents in the store, so that
\* save() wrote the directory
C28_HoldsWhenChunksRemain ==
    [][(RestartAfterRemoval /\ ~IndexIsEmpty(store))
          => GetDocChunkCount(store', last.doc) = 0]_vars

\* the restart after a removal that emptied the store loads the directory
\* as it was before the removal
C28_EmptyStoreReloadsTheOldFiles ==
    [][(RestartAfterRemoval /\ IndexIsEmpty(store) /\ disk.index_file.exists)
          => /\ ~IndexIsEmpty(store')
             /\ disk' = disk]_vars

(***************************************************************************)
(* Contexts that have passed the session timeout.                          *)
(***************************************************************************)
\* the call was about a context last updated more than 1800 s before it
ExpiredWhenCalled ==
    /\ call.before[call.cid].present
    /\ call.now - call.before[call.cid].last_updated > SESSION_TIMEOUT

\* the call made no use of the context of its conversation
ContextNotUsed ==
    /\ call.fn = "is_follow_up_query" => ~Answer
    /\ call.fn = "get_context_for_follow_up" => call.out = call.new_chunks

\* C29: a session context that has not been updated for more than 1800 s is
\* never used: is_follow_up_query returns false and get_context_for_follow_up
\* returns only the new chunks, whether or not get_session has been called
\* since the context expired.
C29_ExpiredContextNeverUsed ==
    (/\ call.fn \in {"is_follow_up_query", "get_context_for_follow_up"}
     /\ ExpiredWhenCalled)
        => ContextNotUsed

\* what holds: a conversation whose context a sweep has dropped, or replaced
\* by a fresh one, has no context that the two calls use
C29_HoldsOnceSwept ==
    (/\ call.fn \in {"is_follow_up_query", "get_context_for_follow_up"}
     /\ \/ ~call.before[call.cid].present
        \/ call.before[call.cid] = FreshContext(call.before[call.cid].last_updated))
        => ContextNotUsed

\* the chunks of an expired context were merged into the new ones
C29_ExpiredChunksMerged ==
    /\ call.fn = "get_context_for_follow_up"
    /\ ExpiredWhenCalled
    /\ Len(call.new_chunks) = 1
    /\ Len(call.out) = 2

\* a fresh context that get_session put in the place of an expired one was
\* asked about
C29_AskedAfterSweep ==
    /\ call.fn = "is_follow_up_query"
    /\ call.before[call.cid] = FreshContext(SESSION_TIMEOUT + 1)

(***************************************************************************)
(* Chunks seeded with the overlap of the flushed chunk.                    *)
(***************************************************************************)
\* no segment of the document of the call that is not a table has more than
\* max_tokens tokens
SegmentsWithinMax ==
    LET segments == CallSegments
    IN  \A s \in 1..Len(segments) :
            ~IsTable(segments[s]) => count_tokens(segments[s]) <= call.max_tokens

\* the segments chunk i starts with that the chunk flushed before it ends with
OverlapSeed(i) ==
    IF i = 1 THEN <<>>
    ELSE SelectSeq(call.out[i].members,
                   LAMBDA m : \E p \in 1..Len(call.out[i - 1].members) :
                                  call.out[i - 1].members[p] = m)

\* the seed of every chunk has at most overlap_percent (15 percent) of the
\* tokens of the flushed chunk
SeedsWithinOverlapPercent(segments) ==
    \A i \in 2..Len(call.out) :
        100 * SumTokens(segments, OverlapSeed(i)) <= 15 * call.out[i - 1].token_count

\* C30: if every non-table segment of the document has at most max_tokens
\* tokens, every non-table chunk of chunk_text has token_count <= max_tokens,
\* the chunks seeded with an overlap included, and the overlap seed has at
\* most overlap_percent of the tokens of the flushed chunk.
C30_SeededChunksWithinMax ==
    (call.fn = "chunk_text" /\ SegmentsWithinMax) =>
        /\ \A i \in 1..Len(call.out) :
              call.out[i].chunk_type # "table"
                  => call.out[i].token_count <= call.max_tokens
        /\ SeedsWithinOverlapPercent(CallSegments)

\* what holds: a chunk exceeds max_tokens by no more than its seed, and the
\* seed is within overlap_percent of the flushed chunk
C30_WithinMaxPlusSeed ==
    (call.fn = "chunk_text" /\ SegmentsWithinMax) =>
        LET segments == CallSegments
        IN  /\ \A i \in 1..Len(call.out) :
                  call.out[i].chunk_type # "table"
                      => call.out[i].token_count
                            <= call.max_tokens + SumTokens(segments, OverlapSeed(i))
            /\ SeedsWithinOverlapPercent(segments)

\* a chunk that was seeded with a segment of the flushed chunk
C30_ChunkSeeded ==
    /\ call.fn = "chunk_text"
    /\ SegmentsWithinMax
    /\ \E i \in 2..Len(call.out) :
          /\ call.out[i].chunk_type # "table"
          /\ Len(OverlapSeed(i)) > 0
          /\ SumTokens(CallSegments, OverlapSeed(i)) > 0

====
